---- MODULE Spec2Model ----
(***************************************************************************)
(* Model of the normalization and merge pipeline of                        *)
(* scripts/fetch_nm_hunt_data.py: the column mapper, the manual override   *)
(* parser, the row canonicalizer, the merge engine and the order in which  *)
(* main() runs them.                                                       *)
(*                                                                         *)
(* Text is a sequence of one-character strings, so that strip(), lower(),  *)
(* re.sub(r"\s+", " ", ...), split() and len() are computed on the         *)
(* characters as Python computes them.  A Python value is a record         *)
(* [t, s, n]: t is the type tag, s the text of a str, n the number of an   *)
(* int, or of a float in units of 1/Scale.                                 *)
(***************************************************************************)
EXTENDS Integers, Sequences, FiniteSets, TLC

\* ------------------------------------------------------------------ text

\* The printable ASCII characters the inputs use, in code-point order.
Ascii ==
   << " ", "!", "#", "$", "%", "&", "(", ")", "*", "+", ",", "-", ".", "/",
      "0", "1", "2", "3", "4", "5", "6", "7", "8", "9", ":", ";", "<", "=",
      ">", "?", "@",
      "A", "B", "C", "D", "E", "F", "G", "H", "I", "J", "K", "L", "M",
      "N", "O", "P", "Q", "R", "S", "T", "U", "V", "W", "X", "Y", "Z",
      "[", "]", "^", "_",
      "a", "b", "c", "d", "e", "f", "g", "h", "i", "j", "k", "l", "m",
      "n", "o", "p", "q", "r", "s", "t", "u", "v", "w", "x", "y", "z",
      "{", "|", "}", "~" >>

\* Rank of a character in code-point order; the tab sorts before the space.
Ord(c) == IF c = "\t" THEN 0 ELSE CHOOSE i \in 1..Len(Ascii) : Ascii[i] = c

UpperChars ==
   << "A", "B", "C", "D", "E", "F", "G", "H", "I", "J", "K", "L", "M",
      "N", "O", "P", "Q", "R", "S", "T", "U", "V", "W", "X", "Y", "Z" >>

LowerChars ==
   << "a", "b", "c", "d", "e", "f", "g", "h", "i", "j", "k", "l", "m",
      "n", "o", "p", "q", "r", "s", "t", "u", "v", "w", "x", "y", "z" >>

\* str.lower() on one character.
LowerChar(c) ==
   IF \E i \in 1..Len(UpperChars) : UpperChars[i] = c
   THEN LowerChars[CHOOSE i \in 1..Len(UpperChars) : UpperChars[i] = c]
   ELSE c

\* str.lower()
LowerStr(s) == [i \in 1..Len(s) |-> LowerChar(s[i])]

\* The characters str.strip() removes and the regular expression \s matches.
IsSpace(c) == c \in {" ", "\t"}

RECURSIVE LStrip(_)
LStrip(s) == IF s # <<>> /\ IsSpace(Head(s)) THEN LStrip(Tail(s)) ELSE s

RECURSIVE RStrip(_)
RStrip(s) ==
   IF s # <<>> /\ IsSpace(s[Len(s)]) THEN RStrip(SubSeq(s, 1, Len(s) - 1)) ELSE s

\* str.strip()
Strip(s) == RStrip(LStrip(s))

\* re.sub(r"\s+", " ", s): every maximal run of whitespace becomes one space.
RECURSIVE CollapseWs(_)
CollapseWs(s) ==
   IF s = <<>> THEN <<>>
   ELSE IF IsSpace(Head(s))
        THEN <<" ">> \o CollapseWs(LStrip(s))
        ELSE <<Head(s)>> \o CollapseWs(Tail(s))

\* str.replace(c, ""): remove every occurrence of a character.
RECURSIVE RemoveChar(_, _)
RemoveChar(s, c) ==
   IF s = <<>> THEN <<>>
   ELSE IF Head(s) = c THEN RemoveChar(Tail(s), c)
        ELSE <<Head(s)>> \o RemoveChar(Tail(s), c)

\* c in s
Contains(s, c) == \E i \in 1..Len(s) : s[i] = c

\* Index of the first occurrence of c in s (s contains c).
FirstIndex(s, c) ==
   CHOOSE i \in 1..Len(s) : s[i] = c /\ \A j \in 1..(i - 1) : s[j] # c

\* str.split(c): the pieces between the occurrences of c, in order.
RECURSIVE SplitOn(_, _)
SplitOn(s, c) ==
   IF ~Contains(s, c) THEN <<s>>
   ELSE <<SubSeq(s, 1, FirstIndex(s, c) - 1)>>
        \o SplitOn(SubSeq(s, FirstIndex(s, c) + 1, Len(s)), c)

\* The order < of Python on str: lexicographic by code point, a proper prefix is smaller.
RECURSIVE StrLess(_, _)
StrLess(a, b) ==
   IF b = <<>> THEN FALSE
   ELSE IF a = <<>> THEN TRUE
   ELSE IF Ord(Head(a)) # Ord(Head(b)) THEN Ord(Head(a)) < Ord(Head(b))
   ELSE StrLess(Tail(a), Tail(b))

\* --------------------------------------------------------- Python values

\* Floats are fixed-point: a float x is the integer x * Scale.
Scale == 1000

PyNone == [t |-> "none", s |-> <<>>, n |-> 0]
PyStr(s) == [t |-> "str", s |-> s, n |-> 0]
PyInt(n) == [t |-> "int", s |-> <<>>, n |-> n]
PyFloat(n) == [t |-> "float", s |-> <<>>, n |-> n]
\* float("nan"): every ordered comparison with it is false.
PyNaN == [t |-> "nan", s |-> <<>>, n |-> 0]
\* A JSON object, d its members.
PyDict(d) == [t |-> "dict", s |-> <<>>, n |-> 0, d |-> d]

\* dict.get(key): None when the key is absent.
Get(row, f) == IF f \in DOMAIN row THEN row[f] ELSE PyNone

\* dict[key] = value
Put(row, f, v) == [g \in (DOMAIN row) \cup {f} |-> IF g = f THEN v ELSE row[g]]

IsDigit(c) == c \in {"0", "1", "2", "3", "4", "5", "6", "7", "8", "9"}

DigitVal(c) == Ord(c) - Ord("0")

\* The value of a string of decimal digits.
RECURSIVE DigitsVal(_)
DigitsVal(s) ==
   IF s = <<>> THEN 0
   ELSE 10 * DigitsVal(SubSeq(s, 1, Len(s) - 1)) + DigitVal(s[Len(s)])

AllDigits(s) == \A i \in 1..Len(s) : IsDigit(s[i])

\* The fraction digits as a count of 1/Scale: the first three digits, zero padded.
FracVal(s) == DigitsVal(SubSeq(s \o <<"0", "0", "0">>, 1, 3))

\* float(text) on an unsigned body, whole "." frac.
ParseDecimal(whole, frac) ==
   IF AllDigits(whole) /\ AllDigits(frac) /\ Len(whole) + Len(frac) > 0
   THEN PyFloat(DigitsVal(whole) * Scale + FracVal(frac))
   ELSE PyNone

\* float(text) on an unsigned body: digits, digits "." digits, "." digits.
\* PyNone stands for the ValueError.  Exponents, underscores and "inf" are not
\* modelled; fractions are exact to three digits.
ParseUnsigned(s) ==
   IF s = <<>> THEN PyNone
   ELSE IF ~Contains(s, ".")
        THEN ParseDecimal(s, <<"0">>)
        ELSE ParseDecimal(SubSeq(s, 1, FirstIndex(s, ".") - 1),
                          SubSeq(s, FirstIndex(s, ".") + 1, Len(s)))

\* float(text), the sign applied to the value of the body.
ApplySign(sign, u) ==
   IF u.t = "float" /\ sign = "-" THEN PyFloat(0 - u.n) ELSE u

\* float(text) on a body after its sign: "nan" in any case is the
\* not-a-number value.
ParseSigned(sign, body) ==
   IF LowerStr(body) = <<"n", "a", "n">> THEN PyNaN
   ELSE ApplySign(sign, ParseUnsigned(body))

\* float(text) on a text without surrounding whitespace: one sign is accepted.
ParseStripped(s) ==
   IF s # <<>> /\ Head(s) \in {"+", "-"}
   THEN ParseSigned(Head(s), Tail(s))
   ELSE ParseSigned("+", s)

\* float(text): surrounding whitespace is accepted.
ParseFloat(text) == ParseStripped(Strip(text))

\* coerce_number on the text of a value that is not a number.
CoerceText(text) == IF text = <<>> THEN PyNone ELSE ParseFloat(text)

\* A variant of coerce_number that leaves the commas in the text.
coerce_number_KeepCommas(value) ==
   IF value.t = "none" THEN PyNone
   ELSE IF value.t = "int" THEN PyFloat(value.n * Scale)
   ELSE IF value.t \in {"float", "nan"} THEN value
   ELSE IF value.t = "dict" THEN PyNone
   ELSE CoerceText(RemoveChar(Strip(value.s), "%"))

\* coerce_number: a float, NaN, or None.
coerce_number(value) ==
   IF value.t = "none" THEN PyNone
   ELSE IF value.t = "int" THEN PyFloat(value.n * Scale)
   ELSE IF value.t \in {"float", "nan"} THEN value
   ELSE IF value.t = "dict" THEN PyNone
   ELSE CoerceText(RemoveChar(RemoveChar(Strip(value.s), "%"), ","))

\* a > b on two floats (false when either is NaN).
FloatGt(a, b) == a.t = "float" /\ b.t = "float" /\ a.n > b.n

\* str(n) for an int n >= 0.
RECURSIVE NatToStr(_)
NatToStr(n) ==
   IF n < 10 THEN <<Ascii[Ord("0") + n]>>
   ELSE NatToStr(n \div 10) \o <<Ascii[Ord("0") + (n % 10)]>>

IntToStr(n) == IF n < 0 THEN <<"-">> \o NatToStr(0 - n) ELSE NatToStr(n)

\* The fraction digits of repr(float): three digits without trailing zeros, at least one.
RECURSIVE TrimZeros(_)
TrimZeros(s) ==
   IF Len(s) > 1 /\ s[Len(s)] = "0" THEN TrimZeros(SubSeq(s, 1, Len(s) - 1)) ELSE s

FloatToStr(n) ==
   LET a == IF n < 0 THEN 0 - n ELSE n
       frac == NatToStr(Scale + (a % Scale))
   IN (IF n < 0 THEN <<"-">> ELSE <<>>)
      \o NatToStr(a \div Scale) \o <<".">> \o TrimZeros(Tail(frac))

\* str(value)
ToStr(value) ==
   IF value.t = "str" THEN value.s
   ELSE IF value.t = "int" THEN IntToStr(value.n)
   ELSE IF value.t = "float" THEN FloatToStr(value.n)
   ELSE IF value.t = "nan" THEN <<"n", "a", "n">>
   ELSE <<"N", "o", "n", "e">>

\* bool(value)
Truthy(value) ==
   IF value.t = "none" THEN FALSE
   ELSE IF value.t = "str" THEN value.s # <<>>
   ELSE IF value.t \in {"int", "float"} THEN value.n # 0
   ELSE IF value.t = "dict" THEN DOMAIN value.d # {}
   ELSE TRUE

\* ------------------------------------------------------------------ state

VARIABLES
   pc,              \* where main() is: "args", "download", "normalize", "merge", "done", "failed"
   error,           \* the exception that ended the run, "" when none
   column_map_arg,  \* main: args.column_map, a str or None
   year_arg,        \* main: args.year, an int or None
   raw_files,       \* main: the files of the raw directory, in processing order
   manual_map,      \* main: the parsed override map
   downloaded,      \* main: whether the download step ran
   file_idx,        \* main: position of the next file to normalize
   file_log,        \* history: per normalized file, its column map and row results
   normalized,      \* main: the canonical records of all files, in processing order
   idx,             \* merge_rows: position of the next row of the loop
   merged,          \* merge_rows: the key -> record table, in insertion order
   cleaned,         \* main: the sorted records
   written,         \* main: whether the output file has been written
   headers,         \* infer_column_map: the header list given
   inferred,        \* infer_column_map: the map returned, once it has run
   coerce_in,       \* coerce_number: the value given
   coerce_out,      \* coerce_number: the value returned, once it has run
   row_raw,         \* canonical_row: raw, the row given
   row_map,         \* canonical_row: column_map, the column map given
   row_year,        \* canonical_row: fallback_year, an int or None
   row_out,         \* canonical_row: what it returned, once it has run
   split_mode,      \* _iter_pdf_rows: "comma" or "spaces"
   pdf_header,      \* _iter_pdf_rows: lines[header_idx], the header line
   pdf_lines,       \* _iter_pdf_rows: lines[header_idx + 1 :]
   pdf_idx,         \* _iter_pdf_rows: position of the next line of the loop
   pdf_rows,        \* _iter_pdf_rows: rows
   pdf_log,         \* history: per line read, its parts and the cells emitted
   xlsx_rows,       \* normalize_draw_odds_xlsx: rows, as _xlsx_read_rows returned them
   xlsx_name_year,  \* normalize_draw_odds_xlsx: the 20xx of path.name, or None
   xlsx_cols,       \* normalize_draw_odds_xlsx: header_idx and the four columns
   xlsx_idx,        \* normalize_draw_odds_xlsx: position of the next row of the loop
   current_species, \* normalize_draw_odds_xlsx: current_species
   xlsx_year,       \* normalize_draw_odds_xlsx: year
   xlsx_data,       \* normalize_draw_odds_xlsx: data
   xlsx_log,        \* history: per row read, what the loop did with it
   elk_lines,       \* parse_rows: lines
   gmu_markers,     \* parse_rows: gmu_markers
   elk_idx,         \* parse_rows: position of the next line of the second loop
   elk_out,         \* parse_rows: out
   all_files,       \* main: all_files, each the suffix and the first bytes
   class_idx,       \* main: position of the next file of "for p in all_files"
   classified,      \* main: classified, kind -> positions of the files
   handed,          \* history: the normalizer calls, each a parser and a file
   warned           \* main: the files named in the unsupported-files warning

inputVars == <<column_map_arg, year_arg, raw_files>>

runVars == <<manual_map, downloaded, file_idx, file_log>>

mergeVars == <<normalized, idx, merged, cleaned, written>>

mapVars == <<headers, inferred>>

rowVars == <<coerce_in, coerce_out, row_raw, row_map, row_year, row_out>>

pdfVars == <<split_mode, pdf_header, pdf_lines, pdf_idx, pdf_rows, pdf_log>>

xlsxVars ==
   <<xlsx_rows, xlsx_name_year, xlsx_cols, xlsx_idx, current_species, xlsx_year,
     xlsx_data, xlsx_log>>

elkVars == <<elk_lines, gmu_markers, elk_idx, elk_out>>

classVars == <<all_files, class_idx, classified, handed, warned>>

\* The variables of the functions called on their own.
callVars == <<mapVars, rowVars, pdfVars, xlsxVars, elkVars, classVars>>

vars == <<pc, error, inputVars, runVars, mergeVars, callVars>>

\* The empty dict.
EmptyMap == [x \in {} |-> x]

\* Neither coerce_number nor canonical_row is being called on its own.
RowIdle ==
   /\ coerce_in = [t |-> "none", s |-> <<>>, n |-> 0]
   /\ coerce_out = [t |-> "none", s |-> <<>>, n |-> 0]
   /\ row_raw = EmptyMap
   /\ row_map = EmptyMap
   /\ row_year = [t |-> "none", s |-> <<>>, n |-> 0]
   /\ row_out = [kind |-> "none", rec |-> EmptyMap]

\* _iter_pdf_rows is not being called on its own.
PdfIdle ==
   /\ split_mode = ""
   /\ pdf_header = <<>>
   /\ pdf_lines = <<>>
   /\ pdf_idx = 1
   /\ pdf_rows = <<>>
   /\ pdf_log = <<>>

\* normalize_draw_odds_xlsx is not being called on its own.
XlsxIdle ==
   /\ xlsx_rows = <<>>
   /\ xlsx_name_year = [t |-> "none", s |-> <<>>, n |-> 0]
   /\ xlsx_cols = [found |-> FALSE]
   /\ xlsx_idx = 1
   /\ current_species = <<>>
   /\ xlsx_year = [t |-> "none", s |-> <<>>, n |-> 0]
   /\ xlsx_data = <<>>
   /\ xlsx_log = <<>>

\* parse_rows is not being called.
ElkIdle ==
   /\ elk_lines = <<>>
   /\ gmu_markers = <<>>
   /\ elk_idx = 1
   /\ elk_out = <<>>

\* The classification of main is not being run on its own.
ClassIdle ==
   /\ all_files = <<>>
   /\ class_idx = 1
   /\ classified = EmptyMap
   /\ handed = <<>>
   /\ warned = <<>>

\* ------------------------------------------------------------ column mapper

k_year == <<"y", "e", "a", "r">>
k_zone == <<"z", "o", "n", "e">>
k_species == <<"s", "p", "e", "c", "i", "e", "s">>
k_weapon == <<"w", "e", "a", "p", "o", "n">>
k_drawApplicants == <<"d", "r", "a", "w", "A", "p", "p", "l", "i", "c", "a", "n", "t", "s">>
k_drawTags == <<"d", "r", "a", "w", "T", "a", "g", "s">>
k_hunterSuccessRate == <<"h", "u", "n", "t", "e", "r", "S", "u", "c", "c", "e", "s", "s", "R", "a", "t", "e">>
k_huntCode == <<"h", "u", "n", "t", "C", "o", "d", "e">>

\* CANONICAL_KEYS
CANONICAL_KEYS ==
   {k_year, k_zone, k_species, k_weapon, k_drawApplicants, k_drawTags,
    k_hunterSuccessRate, k_huntCode}

\* COLUMN_SYNONYMS, in the order of the dict: <<canonical, candidates>>
COLUMN_SYNONYMS ==
   <<
      << k_year,
         << <<"y", "e", "a", "r">>,
          <<"s", "e", "a", "s", "o", "n", " ", "y", "e", "a", "r">>,
          <<"l", "i", "c", "e", "n", "s", "e", " ", "y", "e", "a", "r">> >> >>,
      << k_zone,
         << <<"z", "o", "n", "e">>,
          <<"g", "m", "u">>,
          <<"u", "n", "i", "t">>,
          <<"g", "a", "m", "e", " ", "m", "a", "n", "a", "g", "e", "m", "e", "n", "t", " ", "u", "n", "i", "t">>,
          <<"h", "u", "n", "t", " ", "c", "o", "d", "e", " ", "z", "o", "n", "e">>,
          <<"h", "u", "n", "t", " ", "u", "n", "i", "t">> >> >>,
      << k_species,
         << <<"s", "p", "e", "c", "i", "e", "s">>,
          <<"a", "n", "i", "m", "a", "l">>,
          <<"g", "a", "m", "e", " ", "s", "p", "e", "c", "i", "e", "s">> >> >>,
      << k_weapon,
         << <<"w", "e", "a", "p", "o", "n">>,
          <<"s", "p", "o", "r", "t", "i", "n", "g", " ", "a", "r", "m">>,
          <<"h", "u", "n", "t", " ", "t", "y", "p", "e">>,
          <<"m", "e", "t", "h", "o", "d">> >> >>,
      << k_drawApplicants,
         << <<"d", "r", "a", "w", " ", "a", "p", "p", "l", "i", "c", "a", "n", "t", "s">>,
          <<"a", "p", "p", "l", "i", "c", "a", "n", "t", "s">>,
          <<"f", "i", "r", "s", "t", " ", "c", "h", "o", "i", "c", "e", " ", "a", "p", "p", "l", "i", "c", "a", "n", "t", "s">>,
          <<"t", "o", "t", "a", "l", " ", "a", "p", "p", "l", "i", "c", "a", "n", "t", "s">>,
          <<"a", "p", "p", "s">> >> >>,
      << k_drawTags,
         << <<"d", "r", "a", "w", " ", "t", "a", "g", "s">>,
          <<"t", "a", "g", "s">>,
          <<"l", "i", "c", "e", "n", "s", "e", "s">>,
          <<"p", "e", "r", "m", "i", "t", "s">>,
          <<"q", "u", "o", "t", "a">>,
          <<"a", "v", "a", "i", "l", "a", "b", "l", "e", " ", "l", "i", "c", "e", "n", "s", "e", "s">> >> >>,
      << k_hunterSuccessRate,
         << <<"h", "u", "n", "t", "e", "r", " ", "s", "u", "c", "c", "e", "s", "s", " ", "r", "a", "t", "e">>,
          <<"s", "u", "c", "c", "e", "s", "s", " ", "r", "a", "t", "e">>,
          <<"h", "a", "r", "v", "e", "s", "t", " ", "s", "u", "c", "c", "e", "s", "s">>,
          <<"s", "u", "c", "c", "e", "s", "s", " ", "%">>,
          <<"p", "e", "r", "c", "e", "n", "t", " ", "s", "u", "c", "c", "e", "s", "s">> >> >>,
      << k_huntCode,
         << <<"h", "u", "n", "t", " ", "c", "o", "d", "e">>,
          <<"h", "u", "n", "t", "c", "o", "d", "e">>,
          <<"c", "o", "d", "e">>,
          <<"h", "u", "n", "t">> >> >> >>

\* normalize_header
normalize_header(h) == CollapseWs(LowerStr(Strip(h)))

\* The keys of {h: normalize_header(h) for h in headers}: each header once,
\* in the order of its first occurrence.
RECURSIVE UniqueHeaders(_)
UniqueHeaders(hs) ==
   IF hs = <<>> THEN <<>>
   ELSE LET rest == UniqueHeaders(SubSeq(hs, 1, Len(hs) - 1))
            last == hs[Len(hs)]
        IN IF \E i \in 1..Len(rest) : rest[i] = last THEN rest
           ELSE Append(rest, last)

InSeq(x, seq) == \E i \in 1..Len(seq) : seq[i] = x

\* infer_column_map: "nh == canonical or nh in candidates"
HeaderMatches(nh, canonical, candidates) ==
   nh = canonical \/ InSeq(nh, candidates)

\* Variant of MatchIndex: the last matching header.
MatchIndex_Last(nhs, canonical, candidates) ==
   LET hits == {i \in 1..Len(nhs) : HeaderMatches(nhs[i], canonical, candidates)}
   IN IF hits = {} THEN 0 ELSE CHOOSE i \in hits : \A j \in hits : j <= i

\* infer_column_map, the inner loop with its break, over the normalized
\* headers: the position of the first match, 0 when none matches.
MatchIndex(nhs, canonical, candidates) ==
   LET hits == {i \in 1..Len(nhs) : HeaderMatches(nhs[i], canonical, candidates)}
   IN IF hits = {} THEN 0 ELSE CHOOSE i \in hits : \A j \in hits : i <= j

\* The values of {h: normalize_header(h) for h in headers}, in order.
RECURSIVE NormalizeAll(_)
NormalizeAll(hs) ==
   IF hs = <<>> THEN <<>>
   ELSE <<normalize_header(Head(hs))>> \o NormalizeAll(Tail(hs))

\* infer_column_map, the outer loop: for each canonical field in the order of
\* COLUMN_SYNONYMS, the position in hs of the header mapped to it (0: none).
RECURSIVE MatchAll(_, _)
MatchAll(nhs, e) ==
   IF e > Len(COLUMN_SYNONYMS) THEN <<>>
   ELSE <<MatchIndex(nhs, COLUMN_SYNONYMS[e][1], COLUMN_SYNONYMS[e][2])>>
        \o MatchAll(nhs, e + 1)

\* infer_column_map, the dict built: hs the headers, found their positions
InferredMap(hs, found) ==
   [c \in {COLUMN_SYNONYMS[e][1] : e \in {x \in 1..Len(found) : found[x] # 0}} |->
      hs[found[CHOOSE e \in 1..Len(found) : COLUMN_SYNONYMS[e][1] = c]]]

\* infer_column_map
infer_column_map(hdrs) ==
   InferredMap(UniqueHeaders(hdrs), MatchAll(NormalizeAll(UniqueHeaders(hdrs)), 1))

\* Variant of parse_manual_column_map's loop: an item that is malformed or has
\* an unknown key is skipped.
RECURSIVE ParseItems_SkipBad(_, _)
ParseItems_SkipBad(parts, out) ==
   IF parts = <<>> THEN [ok |-> TRUE, map |-> out]
   ELSE LET part == Head(parts)
            eq == FirstIndex(part, "=")
            key == Strip(SubSeq(part, 1, eq - 1))
            value == Strip(SubSeq(part, eq + 1, Len(part)))
        IN IF ~Contains(part, "=") \/ key \notin CANONICAL_KEYS
           THEN ParseItems_SkipBad(Tail(parts), out)
           ELSE ParseItems_SkipBad(Tail(parts),
                   [k \in (DOMAIN out) \cup {key} |-> IF k = key THEN value ELSE out[k]])

\* parse_manual_column_map, the loop over raw.split(","): ok = FALSE is the
\* ValueError, raised at the first item without "=" or with an unknown key.
RECURSIVE ParseItems(_, _)
ParseItems(parts, out) ==
   IF parts = <<>> THEN [ok |-> TRUE, map |-> out]
   ELSE LET part == Head(parts)
            eq == FirstIndex(part, "=")
            key == Strip(SubSeq(part, 1, eq - 1))
            value == Strip(SubSeq(part, eq + 1, Len(part)))
        IN IF ~Contains(part, "=") THEN [ok |-> FALSE, map |-> EmptyMap]
           ELSE IF key \notin CANONICAL_KEYS THEN [ok |-> FALSE, map |-> EmptyMap]
           ELSE ParseItems(Tail(parts),
                   [k \in (DOMAIN out) \cup {key} |-> IF k = key THEN value ELSE out[k]])

\* parse_manual_column_map
parse_manual_column_map(raw) ==
   IF ~Truthy(raw) THEN [ok |-> TRUE, map |-> EmptyMap]
   ELSE ParseItems(SplitOn(raw.s, ","), EmptyMap)

\* Variant of MergeMaps: an inferred mapping is kept over the override.
MergeMaps_InferredWins(inferred_map, manual) ==
   [k \in (DOMAIN inferred_map) \cup (DOMAIN manual) |->
      IF k \in DOMAIN inferred_map THEN inferred_map[k] ELSE manual[k]]

\* {**inferred, **manual_map}
MergeMaps(inferred_map, manual) ==
   [k \in (DOMAIN inferred_map) \cup (DOMAIN manual) |->
      IF k \in DOMAIN manual THEN manual[k] ELSE inferred_map[k]]

\* --------------------------------------------------------- row canonicalizer

k_gmu == <<"g", "m", "u">>
k_licensesSold == <<"l", "i", "c", "e", "n", "s", "e", "s", "S", "o", "l", "d">>
k_estimatedHarvestTotal == <<"e", "s", "t", "i", "m", "a", "t", "e", "d", "H", "a", "r", "v", "e", "s", "t", "T", "o", "t", "a", "l">>
k_applicants == <<"a", "p", "p", "l", "i", "c", "a", "n", "t", "s">>
s_Any == <<"A", "n", "y">>
s_Unknown == <<"U", "n", "k", "n", "o", "w", "n">>

\* round(): n (in 1/Scale) to the nearest multiple of unit, ties to the even one.
\* (A binary float that prints as a decimal tie, such as 12.345, lies off the
\* tie and rounds by its binary value; the inputs have no such value.)
RoundHalfEven(n, unit) ==
   LET q == n \div unit
       r == n % unit
   IN IF 2 * r < unit THEN q * unit
      ELSE IF 2 * r > unit THEN (q + 1) * unit
      ELSE IF q % 2 = 0 THEN q * unit ELSE (q + 1) * unit

\* int(round(x)) for a float x
RoundToInt(x) == PyInt(RoundHalfEven(x.n, Scale) \div Scale)

\* round(float(x), 2); round(nan, 2) is nan
RoundTo2(x) ==
   IF x.t = "nan" THEN PyNaN ELSE PyFloat(RoundHalfEven(x.n, Scale \div 100))

\* int(x) for a float x: truncation toward zero
Truncate(x) ==
   PyInt(IF x.n >= 0 THEN x.n \div Scale ELSE 0 - ((0 - x.n) \div Scale))

\* A row as csv.DictReader yields it and a JSON object: dict(zip(fieldnames,
\* cells)), a repeated name keeps its last cell, a missing cell is None.
DictRow(fieldnames, cells) ==
   [h \in {fieldnames[i] : i \in 1..Len(fieldnames)} |->
      LET i == CHOOSE k \in 1..Len(fieldnames) :
                  /\ fieldnames[k] = h
                  /\ \A m \in 1..Len(fieldnames) : fieldnames[m] = h => m <= k
      IN IF i <= Len(cells) THEN cells[i] ELSE PyNone]

\* a or b
Or(a, b) == IF Truthy(a) THEN a ELSE b

\* What a row function returns: a record, None, or a raised ValueError.
RowOf(rec) == [kind |-> "row", rec |-> rec]
NoRow == [kind |-> "none", rec |-> EmptyMap]
RowError == [kind |-> "raise", rec |-> EmptyMap]

\* canonical_row.get
ColumnValue(raw, column_map, key) ==
   IF key \in DOMAIN column_map /\ column_map[key] # <<>>
   THEN Get(raw, column_map[key])
   ELSE PyNone

\* canonical_row, after the eight reads: the year, the rejection of a row
\* with a missing field, and the record built.
CanonicalOut(zone, species, weapon, applicants, tags, success, hunt_code, y, fallback_year) ==
   LET year == IF y # PyNone THEN Truncate(y) ELSE fallback_year
       out == [year |-> year,
               zone |-> PyStr(Strip(ToStr(zone))),
               species |-> PyStr(Strip(ToStr(species))),
               weapon |-> PyStr(Strip(ToStr(weapon))),
               drawApplicants |-> RoundToInt(applicants),
               drawTags |-> RoundToInt(tags),
               hunterSuccessRate |-> RoundTo2(success)]
   IN IF y = PyNaN THEN RowError
      ELSE IF PyNone \in {zone, species, weapon, applicants, tags, success} THEN NoRow
      ELSE IF year = PyNone THEN NoRow
      ELSE IF applicants = PyNaN \/ tags = PyNaN THEN RowError
      ELSE IF hunt_code = PyNone THEN RowOf(out)
      ELSE IF Strip(ToStr(hunt_code)) = <<>> THEN RowOf(out)
      ELSE RowOf(Put(out, "huntCode", PyStr(Strip(ToStr(hunt_code)))))

\* canonical_row
canonical_row(raw, column_map, fallback_year) ==
   CanonicalOut(ColumnValue(raw, column_map, k_zone),
                ColumnValue(raw, column_map, k_species),
                ColumnValue(raw, column_map, k_weapon),
                coerce_number(ColumnValue(raw, column_map, k_drawApplicants)),
                coerce_number(ColumnValue(raw, column_map, k_drawTags)),
                coerce_number(ColumnValue(raw, column_map, k_hunterSuccessRate)),
                ColumnValue(raw, column_map, k_huntCode),
                coerce_number(ColumnValue(raw, column_map, k_year)),
                fallback_year)

k_unitDescription == <<"u", "n", "i", "t", "D", "e", "s", "c", "r", "i", "p", "t", "i", "o", "n">>
k_licenses == <<"l", "i", "c", "e", "n", "s", "e", "s">>
k_huntTotal == <<"h", "u", "n", "t", "T", "o", "t", "a", "l">>
k_total == <<"t", "o", "t", "a", "l">>
k_allocation == <<"a", "l", "l", "o", "c", "a", "t", "i", "o", "n">>
k_licensesByResidency == <<"l", "i", "c", "e", "n", "s", "e", "s", "B", "y", "R", "e", "s", "i", "d", "e", "n", "c", "y">>

\* The regular expression \w on the characters of the model.
IsWordChar(c) ==
   \/ IsDigit(c)
   \/ c = "_"
   \/ \E i \in 1..Len(LowerChars) : c = LowerChars[i] \/ c = UpperChars[i]

\* Index of the first character at or after i that is not whitespace.
RECURSIVE SkipSpaces(_, _)
SkipSpaces(s, i) == IF i <= Len(s) /\ IsSpace(s[i]) THEN SkipSpaces(s, i + 1) ELSE i

\* Index of the first ":" at or after i, Len(s) + 1 when there is none.
RECURSIVE NextColon(_, _)
NextColon(s, i) == IF i <= Len(s) /\ s[i] # ":" THEN NextColon(s, i + 1) ELSE i

NoMatch == [found |-> FALSE, group |-> <<>>]
Matched(group) == [found |-> TRUE, group |-> group]

\* re.match of \bUnits?\s+([^:]+), ignoring case, at position i of s: group 1
\* of the match, if there is one. When the whitespace run is followed by ":" or by the end, the
\* run gives its last character back to the group if it has two or more.
UnitMatchAt(s, i) ==
   LET j == IF i + 4 <= Len(s) /\ LowerChar(s[i + 4]) = "s" THEN i + 5 ELSE i + 4
       e == SkipSpaces(s, j)
   IN IF i + 3 > Len(s) THEN NoMatch
      ELSE IF LowerStr(SubSeq(s, i, i + 3)) # <<"u", "n", "i", "t">> THEN NoMatch
      ELSE IF i > 1 /\ IsWordChar(s[i - 1]) THEN NoMatch
      ELSE IF e = j THEN NoMatch
      ELSE IF e <= Len(s) /\ s[e] # ":" THEN Matched(SubSeq(s, e, NextColon(s, e) - 1))
      ELSE IF e - j >= 2 THEN Matched(SubSeq(s, e - 1, e - 1))
      ELSE NoMatch

\* re.search of \bUnits?\s+([^:]+): the leftmost match.
UnitMatch(s) ==
   LET hits == {i \in 1..Len(s) : UnitMatchAt(s, i).found}
   IN IF hits = {} THEN NoMatch
      ELSE UnitMatchAt(s, CHOOSE i \in hits : \A k \in hits : i <= k)

\* x if isinstance(x, dict) else {}
DictOrEmpty(value) == IF value.t = "dict" THEN value.d ELSE EmptyMap

\* str(value or "").strip()
StrOrEmpty(value) == Strip(ToStr(Or(value, PyStr(<<>>))))

\* text or default
TextOr(text, default) == IF text # <<>> THEN text ELSE default

\* first if first is not None else second
Coalesce(first, second) == IF first # PyNone THEN first ELSE second

\* _normalize_complete_draw_row: the zone, from the unit description or the
\* hunt code.
DrawZone(unit_description, unit_match, hunt_code) ==
   IF unit_description = <<>> THEN hunt_code
   ELSE IF unit_match.found THEN Strip(unit_match.group)
   ELSE unit_description

\* int(year_value) if year_value is not None else fallback_year
YearOf(year_value, fallback_year) ==
   IF year_value # PyNone THEN Truncate(year_value) ELSE fallback_year

\* _normalize_complete_draw_row, after the reads
DrawOut(hunt_code, year_value, year, species, zone, applicants, tags) ==
   IF hunt_code = <<>> THEN NoRow
   ELSE IF year_value = PyNaN THEN RowError
   ELSE IF year = PyNone THEN NoRow
   ELSE IF applicants = PyNone \/ tags = PyNone THEN NoRow
   ELSE IF applicants = PyNaN \/ tags = PyNaN THEN RowError
   ELSE RowOf([year |-> year, zone |-> PyStr(zone), huntCode |-> PyStr(hunt_code),
               species |-> PyStr(species), weapon |-> PyStr(s_Any),
               drawApplicants |-> RoundToInt(applicants),
               drawTags |-> RoundToInt(tags),
               hunterSuccessRate |-> PyFloat(0)])

\* _normalize_complete_draw_row, given the values read from the item
DrawRow(hunt_code, year_value, fallback_year, species, unit_description, applicant_total, licenses, alloc_total) ==
   DrawOut(hunt_code, year_value, YearOf(year_value, fallback_year), species,
           DrawZone(unit_description, UnitMatch(unit_description), hunt_code),
           Coalesce(applicant_total, licenses), Coalesce(alloc_total, licenses))

\* item[outer][inner]["total"], each level {} unless it is a dict
NestedTotal(item, outer, inner) ==
   coerce_number(Get(DictOrEmpty(Get(DictOrEmpty(Get(item, outer)), inner)), k_total))

\* _normalize_complete_draw_row
_normalize_complete_draw_row(item, fallback_year) ==
   DrawRow(StrOrEmpty(Get(item, k_huntCode)),
           coerce_number(Get(item, k_year)),
           fallback_year,
           TextOr(StrOrEmpty(Get(item, k_species)), s_Unknown),
           StrOrEmpty(Get(item, k_unitDescription)),
           Coalesce(NestedTotal(item, k_applicants, k_huntTotal),
                    coerce_number(Get(item, k_applicants))),
           coerce_number(Get(item, k_licenses)),
           NestedTotal(item, k_allocation, k_licensesByResidency))

\* _normalize_harvest_row: the passthrough keys and the output fields they set
passthrough ==
   << <<<<"s", "e", "a", "s", "o", "n">>,
        "season">>,
      <<k_gmu,
        "gmu">>,
      <<<<"t", "y", "p", "e">>,
        "type">>,
      <<k_huntCode,
        "huntCode">>,
      <<<<"h", "u", "n", "t", "D", "a", "t", "e", "s">>,
        "huntDates">>,
      <<<<"b", "a", "g", "L", "i", "m", "i", "t">>,
        "bagLimit">>,
      <<k_licensesSold,
        "licensesSold">>,
      <<<<"h", "u", "n", "t", "e", "r", "s", "R", "e", "p", "o", "r", "t", "i", "n", "g">>,
        "huntersReporting">>,
      <<<<"p", "e", "r", "c", "e", "n", "t", "R", "e", "p", "o", "r", "t", "i", "n", "g">>,
        "percentReporting">>,
      <<<<"e", "s", "t", "i", "m", "a", "t", "e", "d", "B", "u", "l", "l", "s">>,
        "estimatedBulls">>,
      <<<<"e", "s", "t", "i", "m", "a", "t", "e", "d", "C", "o", "w", "s">>,
        "estimatedCows">>,
      <<k_estimatedHarvestTotal,
        "estimatedHarvestTotal">>,
      <<<<"s", "a", "t", "i", "s", "f", "a", "c", "t", "i", "o", "n", "R", "a", "t", "i", "n", "g">>,
        "satisfactionRating">>,
      <<<<"d", "a", "y", "s", "H", "u", "n", "t", "e", "d">>,
        "daysHunted">> >>

\* _normalize_harvest_row: the positions in passthrough of the keys the item
\* has a value for
Kept(item) ==
   {i \in 1..Len(passthrough) :
      /\ Get(item, passthrough[i][1]) # PyNone
      /\ Get(item, passthrough[i][1]) # PyStr(<<>>)}

\* _normalize_harvest_row: the record, the passthrough values over the base
HarvestOut(item, base, kept) ==
   [f \in (DOMAIN base) \cup {passthrough[i][2] : i \in kept} |->
      IF \E i \in kept : passthrough[i][2] = f
      THEN item[passthrough[CHOOSE i \in kept : passthrough[i][2] = f][1]]
      ELSE base[f]]

\* _normalize_harvest_row, given the values read from the item
HarvestRow(item, year_value, year, zone, species, weapon, success) ==
   IF year_value = PyNaN THEN RowError
   ELSE IF year = PyNone THEN NoRow
   ELSE IF zone = <<>> \/ success = PyNone THEN NoRow
   ELSE RowOf(HarvestOut(item,
                 [year |-> year, zone |-> PyStr(zone), species |-> PyStr(species),
                  weapon |-> PyStr(weapon), hunterSuccessRate |-> RoundTo2(success)],
                 Kept(item)))

\* _normalize_harvest_row, the year resolved
HarvestRowOf(item, year_value, fallback_year) ==
   HarvestRow(item, year_value, YearOf(year_value, fallback_year),
              StrOrEmpty(Or(Get(item, k_zone), Get(item, k_gmu))),
              TextOr(StrOrEmpty(Get(item, k_species)), s_Unknown),
              TextOr(StrOrEmpty(Get(item, k_weapon)), s_Any),
              coerce_number(Get(item, k_hunterSuccessRate)))

\* _normalize_harvest_row
_normalize_harvest_row(item, fallback_year) ==
   HarvestRowOf(item, coerce_number(Get(item, k_year)), fallback_year)

\* The six fields normalize_csv and normalize_pdf require a mapping for.
core_keys ==
   <<k_zone, k_species, k_weapon, k_drawApplicants, k_drawTags, k_hunterSuccessRate>>

\* A variant of missing_core that finds nothing missing.
missing_core_None(column_map) ==
   SelectSeq(core_keys, LAMBDA k : FALSE)

\* missing_core
missing_core(column_map) ==
   SelectSeq(core_keys, LAMBDA k : k \notin DOMAIN column_map)

\* What normalizing a file returns: the records, or a raised ValueError; with
\* (history) the column map used and the outcome of every row.
FileResult(status, records, column_map, rowlog) ==
   [status |-> status, records |-> records, column_map |-> column_map,
    rowlog |-> rowlog]

\* The loop over the rows of a file, given what the row function returned for
\* each row (results) and the branch that produced it (via): a record is
\* appended, None is skipped, a ValueError ends the loop.
RECURSIVE RowLoop(_, _, _, _, _, _)
RowLoop(results, via, i, column_map, out, rowlog) ==
   IF i > Len(results) THEN FileResult("ok", out, column_map, rowlog)
   ELSE IF results[i].kind = "raise"
   THEN FileResult("raise", out, column_map, Append(rowlog, "raise"))
   ELSE IF results[i].kind = "row"
   THEN RowLoop(results, via, i + 1, column_map,
                Append(out, results[i].rec), Append(rowlog, via[i]))
   ELSE RowLoop(results, via, i + 1, column_map, out, Append(rowlog, "rejected"))

\* normalize_csv and normalize_pdf, the loop over the raw rows:
\* "c = canonical_row(...); if c: rows.append(c)"
CanonicalLoop(rows, column_map, fallback_year) ==
   RowLoop([i \in 1..Len(rows) |-> canonical_row(rows[i], column_map, fallback_year)],
           [i \in 1..Len(rows) |-> "canonical"], 1, column_map, <<>>, <<>>)

\* normalize_csv and normalize_pdf, the column map built
TableRows(rows, column_map, fallback_year) ==
   IF missing_core(column_map) # <<>>
   THEN FileResult("ok", <<>>, column_map, <<>>)
   ELSE CanonicalLoop(rows, column_map, fallback_year)

\* normalize_csv
normalize_csv(file, fallback_year, manual) ==
   TableRows(file.rows, MergeMaps(infer_column_map(file.headers), manual),
             fallback_year)

\* normalize_pdf, given the rows _iter_pdf_rows found
normalize_pdf(file, fallback_year, manual) ==
   IF file.rows = <<>> THEN FileResult("ok", <<>>, EmptyMap, <<>>)
   ELSE TableRows(file.rows, MergeMaps(infer_column_map(file.headers), manual),
                  fallback_year)

\* normalize_json: a row has a harvest-specific field
HarvestShaped(item) ==
   k_licensesSold \in DOMAIN item \/ k_estimatedHarvestTotal \in DOMAIN item

\* normalize_json, one row of a payload that is not a nested draw report: the
\* branch that decides the row, given what the two row functions return.
\* The harvest extractor goes first for a harvest-shaped row; then
\* canonical_row; then the harvest extractor as the fallback.
GenericVia(shaped, harvest_row, c) ==
   IF shaped /\ harvest_row.kind # "none" THEN "harvest"
   ELSE IF c.kind # "none" THEN "canonical"
   ELSE "fallback"

\* normalize_json, one row: what the deciding branch returned
GenericResult(via, harvest_row, c) == IF via = "canonical" THEN c ELSE harvest_row

\* normalize_json, the loop over the rows of a payload that is not a nested
\* draw report
GenericJsonLoop(rows, column_map, fallback_year) ==
   RowLoop([i \in 1..Len(rows) |->
              GenericResult(
                 GenericVia(HarvestShaped(rows[i]),
                            _normalize_harvest_row(rows[i], fallback_year),
                            canonical_row(rows[i], column_map, fallback_year)),
                 _normalize_harvest_row(rows[i], fallback_year),
                 canonical_row(rows[i], column_map, fallback_year))],
           [i \in 1..Len(rows) |->
              GenericVia(HarvestShaped(rows[i]),
                         _normalize_harvest_row(rows[i], fallback_year),
                         canonical_row(rows[i], column_map, fallback_year))],
           1, column_map, <<>>, <<>>)

\* normalize_json, the loop over the rows of a nested draw report
NestedDrawLoop(rows, fallback_year) ==
   RowLoop([i \in 1..Len(rows) |-> _normalize_complete_draw_row(rows[i], fallback_year)],
           [i \in 1..Len(rows) |-> "nested"], 1, EmptyMap, <<>>, <<>>)

\* normalize_json: the test for a nested draw report, on the first ten rows
IsNestedDraw(rows) ==
   \A i \in 1..Len(rows) :
      i <= 10 => k_huntCode \in DOMAIN rows[i] /\ k_applicants \in DOMAIN rows[i]

\* normalize_json, given the rows _extract_json_rows found
normalize_json(file, fallback_year, manual) ==
   IF file.malformed THEN FileResult("raise", <<>>, EmptyMap, <<>>)
   ELSE IF file.rows = <<>> THEN FileResult("ok", <<>>, EmptyMap, <<>>)
   ELSE IF IsNestedDraw(file.rows)
   THEN NestedDrawLoop(file.rows, fallback_year)
   ELSE GenericJsonLoop(file.rows,
                        MergeMaps(infer_column_map(file.headers), manual),
                        fallback_year)

\* main: the files of the raw directory in the order they are normalized
ProcessingOrder(files) ==
   SelectSeq(files, LAMBDA f : f.kind = "csv")
      \o SelectSeq(files, LAMBDA f : f.kind = "json")
      \o SelectSeq(files, LAMBDA f : f.kind = "pdf")

\* main: the normalizer called on a file of each kind
NormalizeOne(file, fallback_year, manual) ==
   IF file.kind = "csv" THEN normalize_csv(file, fallback_year, manual)
   ELSE IF file.kind = "json" THEN normalize_json(file, fallback_year, manual)
   ELSE normalize_pdf(file, fallback_year, manual)

\* infer_column_map called on a header list.
Infer ==
   /\ pc = "infer"
   /\ inferred' = infer_column_map(headers)
   /\ pc' = "inferred"
   /\ UNCHANGED <<error, inputVars, runVars, mergeVars, headers, rowVars, pdfVars, xlsxVars, elkVars, classVars>>

\* coerce_number called on a value.
Coerce ==
   /\ pc = "coerce"
   /\ coerce_out' = coerce_number(coerce_in)
   /\ pc' = "coerced"
   /\ UNCHANGED <<error, inputVars, runVars, mergeVars, mapVars, pdfVars, xlsxVars, elkVars, classVars>>
   /\ UNCHANGED <<coerce_in, row_raw, row_map, row_year, row_out>>

\* canonical_row called on a row, a column map and a fallback year.
Canonicalize ==
   /\ pc = "row"
   /\ row_out' = canonical_row(row_raw, row_map, row_year)
   /\ pc' = "rowdone"
   /\ UNCHANGED <<error, inputVars, runVars, mergeVars, mapVars, pdfVars, xlsxVars, elkVars, classVars>>
   /\ UNCHANGED <<coerce_in, coerce_out, row_raw, row_map, row_year>>

\* --------------------------------------------------------- PDF text table

\* The position where the first run of two or more whitespace characters
\* starts, 0 when there is none.
RunStart(s) ==
   LET starts == {i \in 1..(Len(s) - 1) : IsSpace(s[i]) /\ IsSpace(s[i + 1])}
   IN IF starts = {} THEN 0 ELSE CHOOSE i \in starts : \A j \in starts : i <= j

\* re.split(r"\s{2,}", s): the pieces between the runs of two or more
\* whitespace characters.
RECURSIVE SplitRuns(_)
SplitRuns(s) ==
   IF RunStart(s) = 0 THEN <<s>>
   ELSE <<SubSeq(s, 1, RunStart(s) - 1)>>
        \o SplitRuns(LStrip(SubSeq(s, RunStart(s), Len(s))))

\* [c.strip() for c in pieces]
StripAll(pieces) == [i \in 1..Len(pieces) |-> Strip(pieces[i])]

\* _iter_pdf_rows.split_line: one csv.reader record of a line without quotes,
\* or the stripped pieces between whitespace runs.
split_line(line, mode) ==
   IF mode = "comma" THEN SplitOn(line, ",") ELSE StripAll(SplitRuns(Strip(line)))

\* " ".join(parts)
RECURSIVE JoinSpaced(_)
JoinSpaced(parts) ==
   IF parts = <<>> THEN <<>>
   ELSE IF Len(parts) = 1 THEN parts[1]
   ELSE parts[1] \o <<" ">> \o JoinSpaced(Tail(parts))

\* _iter_pdf_rows: max(2, len(headers) // 2), the fewest parts of a line kept
DropLimit(n) == IF n \div 2 > 2 THEN n \div 2 ELSE 2


\* _iter_pdf_rows: parts += [""] * (len(headers) - len(parts))
PadCells(parts, n) ==
   IF Len(parts) < n THEN parts \o [i \in 1..(n - Len(parts)) |-> <<>>] ELSE parts

\* A variant of FoldCells that cuts the overflow off.
FoldCells_Truncate(parts, n) ==
   IF Len(parts) > n THEN SubSeq(parts, 1, n) ELSE parts

\* _iter_pdf_rows: parts[: n - 1] + [" ".join(parts[n - 1 :])], for n >= 1
FoldCells(parts, n) ==
   IF Len(parts) > n
   THEN SubSeq(parts, 1, n - 1) \o <<JoinSpaced(SubSeq(parts, n, Len(parts)))>>
   ELSE parts

\* _iter_pdf_rows: {h: v for h, v in zip(headers, parts)}
PdfRow(hs, cells) == DictRow(hs, [i \in 1..Len(cells) |-> PyStr(cells[i])])

\* What the loop notes of a line: its parts, whether it was kept, its cells.
LineLog(parts, kept, cells) == [parts |-> parts, kept |-> kept, cells |-> cells]

\* _iter_pdf_rows, the loop body on a line with its parts, under a header.
PdfLineOn(hs, parts) ==
   IF Len(parts) < DropLimit(Len(hs))
   THEN /\ pdf_rows' = pdf_rows
        /\ pdf_log' = Append(pdf_log, LineLog(parts, FALSE, <<>>))
   ELSE \E cells \in {FoldCells(PadCells(parts, Len(hs)), Len(hs))} :
           /\ pdf_rows' = Append(pdf_rows, PdfRow(hs, cells))
           /\ pdf_log' = Append(pdf_log, LineLog(parts, TRUE, cells))

\* _iter_pdf_rows: one pass of the loop over the lines after the header.
PdfLine ==
   /\ pc = "pdf"
   /\ pdf_idx <= Len(pdf_lines)
   /\ \E hs \in {split_line(pdf_header, split_mode)} :
         \E parts \in {split_line(pdf_lines[pdf_idx], split_mode)} :
            PdfLineOn(hs, parts)
   /\ pdf_idx' = pdf_idx + 1
   /\ UNCHANGED <<pc, error, inputVars, runVars, mergeVars, mapVars, rowVars>>
   /\ UNCHANGED <<xlsxVars, elkVars, classVars>>
   /\ UNCHANGED <<split_mode, pdf_header, pdf_lines>>

\* _iter_pdf_rows: return rows
PdfReturn ==
   /\ pc = "pdf"
   /\ pdf_idx > Len(pdf_lines)
   /\ pc' = "pdfdone"
   /\ UNCHANGED <<error, inputVars, runVars, mergeVars, callVars>>

\* ------------------------------------------------------------ merge engine

\* Variants of _normalize_merge_text: without lower(), without the whitespace collapse.
_normalize_merge_text_NoLower(value) ==
   CollapseWs(Strip(ToStr(IF Truthy(value) THEN value ELSE PyStr(<<>>))))

_normalize_merge_text_NoCollapse(value) ==
   LowerStr(Strip(ToStr(IF Truthy(value) THEN value ELSE PyStr(<<>>))))

\* _normalize_merge_text
_normalize_merge_text(value) ==
   LowerStr(CollapseWs(Strip(ToStr(IF Truthy(value) THEN value ELSE PyStr(<<>>)))))

\* _merge_key: (year, zone, hunt_code) or (year, zone, species, weapon)
_merge_key(row) ==
   LET year == Get(row, "year")
       zone == _normalize_merge_text(Get(row, "zone"))
       hunt_code == _normalize_merge_text(Get(row, "huntCode"))
       species == _normalize_merge_text(Get(row, "species"))
       weapon == _normalize_merge_text(Get(row, "weapon"))
   IN IF hunt_code # <<>> THEN <<year, zone, hunt_code>>
      ELSE <<year, zone, species, weapon>>

\* A variant of _is_empty for which a blank string is a value.
_is_empty_NoneOnly(value) == value.t = "none"

\* _is_empty
_is_empty(value) ==
   IF value.t = "none" THEN TRUE
   ELSE IF value.t = "str" THEN Strip(value.s) = <<>>
   ELSE FALSE

s_any == <<"a", "n", "y">>
s_unknown == <<"u", "n", "k", "n", "o", "w", "n">>

\* A variant of _prefer_new_string that also takes a string of equal length.
_prefer_new_string_OrEqual(current, new) ==
   LET current_s == Strip(ToStr(current))
       new_s == Strip(ToStr(new))
   IN IF _is_empty(new) THEN FALSE
      ELSE IF _is_empty(current) THEN TRUE
      ELSE IF LowerStr(current_s) = s_any /\ LowerStr(new_s) # s_any THEN TRUE
      ELSE IF LowerStr(current_s) = s_unknown /\ LowerStr(new_s) # s_unknown THEN TRUE
      ELSE Len(new_s) >= Len(current_s)

\* _prefer_new_string
_prefer_new_string(current, new) ==
   LET current_s == Strip(ToStr(current))
       new_s == Strip(ToStr(new))
   IN IF _is_empty(new) THEN FALSE
      ELSE IF _is_empty(current) THEN TRUE
      ELSE IF LowerStr(current_s) = s_any /\ LowerStr(new_s) # s_any THEN TRUE
      ELSE IF LowerStr(current_s) = s_unknown /\ LowerStr(new_s) # s_unknown THEN TRUE
      ELSE Len(new_s) > Len(current_s)

\* merge_rows: the prefer-larger-numeric fields
numeric_max_keys ==
   {"drawApplicants", "drawTags", "licensesSold", "huntersReporting",
    "percentReporting", "estimatedBulls", "estimatedCows",
    "estimatedHarvestTotal", "hunterSuccessRate", "satisfactionRating",
    "daysHunted"}

\* Variant of Replaces: a numeric field takes every incoming value that parses.
Replaces_LastNumericWins(existing, field, value) ==
   LET current == Get(existing, field)
   IN IF _is_empty(value) THEN FALSE
      ELSE IF _is_empty(current) THEN TRUE
      ELSE IF field \in numeric_max_keys
           THEN coerce_number(value) # PyNone
           ELSE value.t = "str" /\ _prefer_new_string(current, value)

\* merge_rows, one iteration of "for field, value in row.items()": whether
\* existing[field] is assigned the incoming value.
Replaces(existing, field, value) ==
   LET current == Get(existing, field)
       incoming == coerce_number(value)
       present == coerce_number(current)
   IN IF _is_empty(value) THEN FALSE
      ELSE IF _is_empty(current) THEN TRUE
      ELSE IF field \in numeric_max_keys
           THEN incoming # PyNone /\ (present = PyNone \/ FloatGt(incoming, present))
           ELSE value.t = "str" /\ _prefer_new_string(current, value)

\* merge_rows, the field loop over one incoming row of an existing key.
MergeRecord(existing, row) ==
   LET taken == {f \in DOMAIN row : Replaces(existing, f, row[f])}
   IN [f \in (DOMAIN existing) \cup taken |->
         IF f \in taken THEN row[f] ELSE existing[f]]

\* Variant of KeyIndex: an entry of the same year and zone is taken for the
\* entry of the key.
KeyIndex_YearZone(table, key) ==
   IF \E i \in 1..Len(table) : table[i].key[1] = key[1] /\ table[i].key[2] = key[2]
   THEN CHOOSE i \in 1..Len(table) : table[i].key[1] = key[1] /\ table[i].key[2] = key[2]
   ELSE 0

KeyIndex(table, key) ==
   IF \E i \in 1..Len(table) : table[i].key = key
   THEN CHOOSE i \in 1..Len(table) : table[i].key = key
   ELSE 0

\* Variant of MergeInto: every row is stored as a new entry.
MergeInto_NoDedup(table, row, i) ==
   Append(table, [key |-> _merge_key(row), rec |-> row, src |-> {i}])

\* merge_rows, one iteration of "for row in rows" for the row at position i.
\* An entry of the table is the key, the record, and (history) the positions
\* of the input rows folded into it.
MergeInto(table, row, i) ==
   LET key == _merge_key(row)
       k == KeyIndex(table, key)
   IN IF k = 0
      THEN Append(table, [key |-> key, rec |-> row, src |-> {i}])
      ELSE [table EXCEPT ![k] = [key |-> key,
                                 rec |-> MergeRecord(table[k].rec, row),
                                 src |-> table[k].src \cup {i}]]

\* list(merged.values())
Values(table) == [i \in 1..Len(table) |-> table[i].rec]

RECURSIVE MergeFrom(_, _, _)
MergeFrom(table, rows, i) ==
   IF i > Len(rows) THEN table
   ELSE MergeFrom(MergeInto(table, rows[i], i), rows, i + 1)

\* merge_rows
merge_rows(rows) == Values(MergeFrom(<<>>, rows, 1))

\* Variant of SortKey: weapon before species.
SortKey_WeaponFirst(r) ==
   << IF "year" \in DOMAIN r THEN r["year"] ELSE PyInt(0),
      ToStr(IF "weapon" \in DOMAIN r THEN r["weapon"] ELSE PyStr(<<>>)),
      ToStr(IF "species" \in DOMAIN r THEN r["species"] ELSE PyStr(<<>>)),
      ToStr(IF "zone" \in DOMAIN r THEN r["zone"] ELSE PyStr(<<>>)) >>

\* main: the sort key (year, species, weapon, zone) of a merged record
SortKey(r) ==
   << IF "year" \in DOMAIN r THEN r["year"] ELSE PyInt(0),
      ToStr(IF "species" \in DOMAIN r THEN r["species"] ELSE PyStr(<<>>)),
      ToStr(IF "weapon" \in DOMAIN r THEN r["weapon"] ELSE PyStr(<<>>)),
      ToStr(IF "zone" \in DOMAIN r THEN r["zone"] ELSE PyStr(<<>>)) >>

\* The order < of Python on two sort keys (the years are ints).
KeyLess(a, b) ==
   IF a[1].n # b[1].n THEN a[1].n < b[1].n
   ELSE IF a[2] # b[2] THEN StrLess(a[2], b[2])
   ELSE IF a[3] # b[3] THEN StrLess(a[3], b[3])
   ELSE StrLess(a[4], b[4])

\* Insert r behind every element that is not greater (the sort is stable).
RECURSIVE InsertSorted(_, _)
InsertSorted(sorted, r) ==
   IF sorted = <<>> THEN <<r>>
   ELSE IF KeyLess(SortKey(r), SortKey(Head(sorted)))
        THEN <<r>> \o sorted
        ELSE <<Head(sorted)>> \o InsertSorted(Tail(sorted), r)

RECURSIVE SortFrom(_, _, _)
SortFrom(sorted, rows, i) ==
   IF i > Len(rows) THEN sorted
   ELSE SortFrom(InsertSorted(sorted, rows[i]), rows, i + 1)

\* sorted(rows, key=lambda r: (year, species, weapon, zone))
SortedRows(rows) == SortFrom(<<>>, rows, 1)

\* merge_rows: one turn of the loop over the rows.
MergeStep ==
   /\ pc = "merge"
   /\ idx <= Len(normalized)
   /\ merged' = MergeInto(merged, normalized[idx], idx)
   /\ idx' = idx + 1
   /\ UNCHANGED <<pc, error, inputVars, runVars, callVars, normalized, cleaned, written>>

\* main: the rows are merged; sort them and write the output file.
WriteOutput ==
   /\ pc = "merge"
   /\ idx > Len(normalized)
   /\ cleaned' = SortedRows(Values(merged))
   /\ written' = TRUE
   /\ pc' = "done"
   /\ UNCHANGED <<error, inputVars, runVars, callVars, normalized, idx, merged>>

\* ------------------------------------------------------------------- main

\* main: parse_manual_column_map(args.column_map), before the download block.
\* A ValueError ends the run.
ParseOverride ==
   /\ pc = "args"
   /\ LET r == parse_manual_column_map(column_map_arg)
      IN IF r.ok
         THEN /\ manual_map' = r.map
              /\ pc' = "download"
              /\ error' = error
         ELSE /\ manual_map' = manual_map
              /\ pc' = "failed"
              /\ error' = "ValueError"
   /\ UNCHANGED <<inputVars, downloaded, file_idx, file_log, mergeVars, callVars>>

\* main: the download block, run without --no-download.
Download ==
   /\ pc = "download"
   /\ downloaded' = TRUE
   /\ pc' = "normalize"
   /\ UNCHANGED <<error, inputVars, manual_map, file_idx, file_log, mergeVars, callVars>>

\* main: the download block is skipped with --no-download.
SkipDownload ==
   /\ pc = "download"
   /\ pc' = "normalize"
   /\ UNCHANGED <<error, inputVars, runVars, mergeVars, callVars>>

\* main: one turn of the normalize loops. A ValueError raised by a row ends
\* the run.
NormalizeFile ==
   /\ pc = "normalize"
   /\ file_idx <= Len(ProcessingOrder(raw_files))
   /\ \E file \in {ProcessingOrder(raw_files)[file_idx]} :
         \E r \in {NormalizeOne(file, year_arg, manual_map)} :
            /\ file_log' = Append(file_log, [file |-> file, result |-> r])
            /\ IF r.status = "ok"
               THEN /\ normalized' = normalized \o r.records
                    /\ file_idx' = file_idx + 1
                    /\ UNCHANGED <<pc, error>>
               ELSE /\ pc' = "failed"
                    /\ error' = "ValueError"
                    /\ UNCHANGED <<normalized, file_idx>>
   /\ UNCHANGED <<inputVars, manual_map, downloaded, idx, merged, cleaned,
                  written, callVars>>

\* main: every file is normalized; merge_rows is called.
StartMerge ==
   /\ pc = "normalize"
   /\ file_idx > Len(ProcessingOrder(raw_files))
   /\ pc' = "merge"
   /\ idx' = 1
   /\ merged' = <<>>
   /\ UNCHANGED <<error, inputVars, runVars, callVars, normalized, cleaned, written>>

\* ------------------------------------------------- inputs of the merge

s_6A == <<"6", "A">>
s_6a == <<"6", "a">>
s_ELK_1_006 == <<"E", "L", "K", "-", "1", "-", "0", "0", "6">>
s_elk_1_006 == <<"e", "l", "k", "-", "1", "-", "0", "0", "6">>
s_Elk == <<"E", "l", "k">>
s_Rifle == <<"R", "i", "f", "l", "e">>
s_Bow == <<"B", "o", "w">>
s_bow == <<"b", "o", "w">>
s_N_A == <<"N", "/", "A">>
s_1_234 == <<"1", ",", "2", "3", "4">>
s_Unit_6 == <<"U", "n", "i", "t", " ", "6">>
s_unit__6 == <<"u", "n", "i", "t", " ", " ", "6">>
s_Mule_Deer == <<"M", "u", "l", "e", " ", "D", "e", "e", "r">>
s_MULE__DEER == <<"M", "U", "L", "E", " ", " ", "D", "E", "E", "R">>
s_12 == <<"1", "2">>
s_Deer == <<"D", "e", "e", "r">>

\* A record as canonical_row, _normalize_complete_draw_row and
\* normalize_draw_odds_xlsx build it; hunt_code = <<>> leaves huntCode out.
DrawRecord(year, zone, hunt_code, species, weapon, applicants, tags, success) ==
   LET base == [year |-> PyInt(year), zone |-> PyStr(zone),
                species |-> PyStr(species), weapon |-> PyStr(weapon),
                drawApplicants |-> PyInt(applicants), drawTags |-> PyInt(tags),
                hunterSuccessRate |-> success]
   IN IF hunt_code = <<>> THEN base ELSE Put(base, "huntCode", PyStr(hunt_code))

\* A record as _normalize_harvest_row builds it: no draw counts, the
\* passthrough licensesSold as the source gave it.
HarvestRecord(year, zone, hunt_code, species, weapon, success, sold) ==
   LET base == [year |-> PyInt(year), zone |-> PyStr(zone),
                species |-> PyStr(species), weapon |-> PyStr(weapon),
                hunterSuccessRate |-> success, licensesSold |-> sold]
   IN IF hunt_code = <<>> THEN base ELSE Put(base, "huntCode", PyStr(hunt_code))

RecA == DrawRecord(2023, s_6A, s_ELK_1_006, s_Elk, s_Any, 500, 10, PyFloat(0))
RecB == DrawRecord(2023, s_6a, s_elk_1_006, s_Elk, s_Rifle, 480, 12, PyFloat(34500))

\* The canonical records the merge is run on.
RecordPool ==
   { RecA, RecB,
     HarvestRecord(2023, s_6A, s_ELK_1_006, s_Elk, s_Unknown, PyNaN, PyStr(s_N_A)),
     HarvestRecord(2023, s_6a, s_ELK_1_006, s_Elk, s_Bow, PyFloat(12500), PyStr(s_1_234)),
     DrawRecord(2023, s_Unit_6, <<>>, s_Mule_Deer, s_Bow, 40, 5, PyFloat(25000)),
     DrawRecord(2023, s_unit__6, <<>>, s_MULE__DEER, s_bow, 45, 4, PyFloat(12500)),
     HarvestRecord(2023, s_Unit_6, <<>>, s_Mule_Deer, s_Bow, PyFloat(30000), PyInt(40)),
     DrawRecord(2022, s_12, <<>>, s_Deer, <<>>, 7, 7, PyFloat(100000)) }

\* The longest list of records merged.
MaxRows == 3

RowLists == UNION {[1..n -> RecordPool] : n \in 0..MaxRows}

InitMerge ==
   /\ pc = "merge"
   /\ normalized \in RowLists
   /\ error = ""
   /\ column_map_arg = PyNone
   /\ year_arg = PyNone
   /\ raw_files = <<>>
   /\ manual_map = EmptyMap
   /\ downloaded = FALSE
   /\ file_idx = 1
   /\ file_log = <<>>
   /\ idx = 1
   /\ merged = <<>>
   /\ cleaned = <<>>
   /\ written = FALSE
   /\ RowIdle
   /\ PdfIdle
   /\ XlsxIdle
   /\ ElkIdle
   /\ ClassIdle
   /\ headers = <<>>
   /\ inferred = EmptyMap

NextMerge == MergeStep \/ WriteOutput

\* merge_rows and the sort of main, on every list of canonical records.
SpecMerge == InitMerge /\ [][NextMerge]_vars

\* ------------------------------------------------- properties of the merge

\* Every reordering of a list.
Perms(rows) ==
   {[i \in 1..Len(rows) |-> rows[f[i]]] : f \in Permutations(1..Len(rows))}

RecordSet(recs) == {recs[i] : i \in 1..Len(recs)}

KeySet(table) == {table[i].key : i \in 1..Len(table)}

EntryOf(table, key) == table[CHOOSE i \in 1..Len(table) : table[i].key = key]

\* C1 as stated: for every permutation of the input list, merge_rows yields
\* the same set of merged records (same keys, same value of every field).
C1_OrderIndependent ==
   pc = "done" =>
      \A p \in Perms(normalized) :
         RecordSet(merge_rows(p)) = RecordSet(Values(merged))

\* C1 as amended: for every permutation of the input list, merge_rows yields
\* one record for each of the same merge keys, and under each key the same
\* numeric drawApplicants and drawTags; the other fields may depend on the
\* order (a stored string is kept on a tie, a placeholder gives way).
C1_KeysAndCountsOrderIndependent ==
   pc = "done" =>
      \A p \in Perms(normalized) :
         LET t == MergeFrom(<<>>, p, 1)
         IN /\ Len(t) = Len(merged)
            /\ KeySet(t) = KeySet(merged)
            /\ \A k \in KeySet(merged) :
                  \A f \in {"drawApplicants", "drawTags"} :
                     coerce_number(Get(EntryOf(t, k).rec, f))
                        = coerce_number(Get(EntryOf(merged, k).rec, f))

\* Some reordering of the input merges rows of one key and gives other records.
C1_Witness ==
   /\ pc = "done"
   /\ Len(merged) < Len(normalized)
   /\ \E p \in Perms(normalized) :
         RecordSet(merge_rows(p)) # RecordSet(Values(merged))

\* C2: merging a list followed by itself gives exactly the records of
\* merging the list once.
C2_Idempotent ==
   pc = "done" => merge_rows(normalized \o normalized) = Values(merged)

\* A list whose merge combined rows and changed the first record stored.
C2_Witness ==
   /\ pc = "done"
   /\ Len(merged) < Len(normalized)
   /\ merged[1].rec # normalized[1]

\* C3: record A followed by record B gives one record with weapon "Rifle",
\* drawApplicants 500, drawTags 12 and hunterSuccessRate 34.5.
C3_Scenario ==
   (pc = "done" /\ normalized = <<RecA, RecB>>) =>
      /\ Len(cleaned) = 1
      /\ cleaned[1]["weapon"] = PyStr(s_Rifle)
      /\ cleaned[1]["drawApplicants"] = PyInt(500)
      /\ cleaned[1]["drawTags"] = PyInt(12)
      /\ cleaned[1]["hunterSuccessRate"] = PyFloat(34500)

C3_Witness == pc = "done" /\ normalized = <<RecA, RecB>> /\ written

\* C4 as stated: at every point of merge_rows, once a row of a key carried a
\* number v in a prefer-larger-numeric field, the value stored under that key
\* is a number and is >= v.
C4_NumericNeverRegress ==
   \A k \in 1..Len(merged) :
      \A i \in merged[k].src :
         \A f \in numeric_max_keys :
            LET v == coerce_number(Get(normalized[i], f))
                stored == coerce_number(Get(merged[k].rec, f))
            IN v.t = "float" => (stored.t = "float" /\ stored.n >= v.n)

\* C5: the key of a record as the claim words it: year, zone and hunt code
\* when the hunt code is not empty, else year, zone, species and weapon; each
\* text trimmed, lower-cased, its whitespace runs collapsed.
ClaimNorm(row, f) ==
   IF f \in DOMAIN row /\ row[f].t = "str"
   THEN Strip(CollapseWs(LowerStr(row[f].s)))
   ELSE <<>>

ClaimKey(row) ==
   IF ClaimNorm(row, "huntCode") # <<>>
   THEN <<row["year"], ClaimNorm(row, "zone"), ClaimNorm(row, "huntCode")>>
   ELSE <<row["year"], ClaimNorm(row, "zone"), ClaimNorm(row, "species"),
          ClaimNorm(row, "weapon")>>

\* C5: at every point of merge_rows the table holds exactly one record for
\* each distinct key of the rows read so far, every row read is folded into
\* exactly one record, and two rows are folded into the same record if and
\* only if their keys are equal; the output has one record per key.
C5_OneRecordPerKey ==
   LET seen == 1..(idx - 1)
       holders(i) == {k \in 1..Len(merged) : i \in merged[k].src}
   IN /\ \A i \in seen : Cardinality(holders(i)) = 1
      /\ \A i, j \in seen :
            (holders(i) = holders(j))
               <=> (ClaimKey(normalized[i]) = ClaimKey(normalized[j]))
      /\ Len(merged) = Cardinality({ClaimKey(normalized[i]) : i \in seen})
      /\ written => Len(cleaned) = Len(merged)

\* Rows that differ in case or spacing were combined, and another key exists.
C5_Witness ==
   /\ pc = "done"
   /\ Len(merged) >= 2
   /\ \E i, j \in 1..Len(normalized) :
         /\ ClaimKey(normalized[i]) = ClaimKey(normalized[j])
         /\ normalized[i]["zone"] # normalized[j]["zone"]

\* C6: the tuple (year, species, weapon, zone) the output is ordered by.
ClaimTuple(r) ==
   <<r["year"].n, r["species"].s, r["weapon"].s, r["zone"].s>>

ClaimTupleLeq(a, b) ==
   \/ a = b
   \/ a[1] < b[1]
   \/ a[1] = b[1] /\ StrLess(a[2], b[2])
   \/ a[1] = b[1] /\ a[2] = b[2] /\ StrLess(a[3], b[3])
   \/ a[1] = b[1] /\ a[2] = b[2] /\ a[3] = b[3] /\ StrLess(a[4], b[4])

\* C6: the written output holds the merged records, each once, ordered
\* ascending by (year, species, weapon, zone).
C6_OutputSorted ==
   written =>
      /\ Len(cleaned) = Len(merged)
      /\ \A k \in 1..Len(merged) :
            Cardinality({i \in 1..Len(cleaned) : cleaned[i] = merged[k].rec})
               = Cardinality({i \in 1..Len(merged) : merged[i].rec = merged[k].rec})
      /\ \A i \in 1..(Len(cleaned) - 1) :
            ClaimTupleLeq(ClaimTuple(cleaned[i]), ClaimTuple(cleaned[i + 1]))

\* The sort moved a record.
C6_Witness == written /\ Len(cleaned) >= 2 /\ cleaned # Values(merged)

\* ------------------------------------------- inputs of the column mapper

h_Game_Management_Unit == <<"G", "a", "m", "e", " ", "M", "a", "n", "a", "g", "e", "m", "e", "n", "t", " ", "U", "n", "i", "t">>
h_Species == <<"S", "p", "e", "c", "i", "e", "s">>
h_Weapon == <<"W", "e", "a", "p", "o", "n">>
h_Total_Applicants == <<"T", "o", "t", "a", "l", " ", "A", "p", "p", "l", "i", "c", "a", "n", "t", "s">>
h_Permits == <<"P", "e", "r", "m", "i", "t", "s">>
h_Success_pct == <<"S", "u", "c", "c", "e", "s", "s", " ", "%">>
h_GMU_padded == <<" ", " ", "G", "M", "U", " ">>
h_Draw__Tags == <<"D", "r", "a", "w", " ", " ", "T", "a", "g", "s">>
h_Unit_Code == <<"U", "n", "i", "t", " ", "C", "o", "d", "e">>
h_Notes == <<"N", "o", "t", "e", "s">>

\* The header list of the example of the specification.
ExampleHeaders ==
   <<h_Game_Management_Unit, h_Species, h_Weapon, h_Total_Applicants,
     h_Permits, h_Success_pct>>

\* The headers the lists are drawn from: the example's, the eight canonical
\* names themselves, and headers that differ from a synonym in case or spacing.
HeaderPool ==
   {h_Game_Management_Unit, h_Total_Applicants, h_Permits, h_Success_pct,
    h_GMU_padded, h_Draw__Tags, h_Unit_Code, h_Notes} \cup CANONICAL_KEYS

\* The longest header list drawn from the pool.
MaxHeaders == 2

HeaderLists == UNION {[1..n -> HeaderPool] : n \in 0..MaxHeaders}

InitMap ==
   /\ pc = "infer"
   /\ headers \in HeaderLists \cup {ExampleHeaders}
   /\ inferred = EmptyMap
   /\ error = ""
   /\ column_map_arg = PyNone
   /\ year_arg = PyNone
   /\ raw_files = <<>>
   /\ manual_map = EmptyMap
   /\ downloaded = FALSE
   /\ file_idx = 1
   /\ file_log = <<>>
   /\ normalized = <<>>
   /\ idx = 1
   /\ merged = <<>>
   /\ cleaned = <<>>
   /\ written = FALSE
   /\ RowIdle
   /\ PdfIdle
   /\ XlsxIdle
   /\ ElkIdle
   /\ ClassIdle

NextMap == Infer

\* infer_column_map on every header list.
SpecMap == InitMap /\ [][NextMap]_vars

\* ------------------------------------------ properties of the column mapper

\* The synonym list of a canonical field.
SynonymsOf(c) ==
   COLUMN_SYNONYMS[CHOOSE e \in 1..Len(COLUMN_SYNONYMS) : COLUMN_SYNONYMS[e][1] = c][2]

\* A header trimmed, lower-cased, its whitespace runs collapsed.
ClaimNormHeader(h) == Strip(CollapseWs(LowerStr(h)))

\* C7: every canonical field is mapped to the first header, in the order
\* given, whose normalized form is in the field's synonym list, and is left
\* unmapped when no header matches; the example headers give
\* zone -> "Game Management Unit", drawApplicants -> "Total Applicants",
\* drawTags -> "Permits", hunterSuccessRate -> "Success %".
C7_FirstSynonymMatch ==
   pc = "inferred" =>
      /\ DOMAIN inferred \subseteq CANONICAL_KEYS
      /\ \A c \in CANONICAL_KEYS :
            LET hits == {i \in 1..Len(headers) :
                           InSeq(ClaimNormHeader(headers[i]), SynonymsOf(c))}
            IN IF hits = {} THEN c \notin DOMAIN inferred
               ELSE /\ c \in DOMAIN inferred
                    /\ inferred[c] = headers[CHOOSE i \in hits : \A j \in hits : i <= j]
      /\ headers = ExampleHeaders =>
            /\ inferred[k_zone] = h_Game_Management_Unit
            /\ inferred[k_drawApplicants] = h_Total_Applicants
            /\ inferred[k_drawTags] = h_Permits
            /\ inferred[k_hunterSuccessRate] = h_Success_pct

\* The example header list has been mapped.
C7_Witness == pc = "inferred" /\ headers = ExampleHeaders /\ k_zone \in DOMAIN inferred

\* C8 as stated: a header list that contains the canonical name of a field
\* gives that field a mapping.
C8_CanonicalNameMapped ==
   pc = "inferred" =>
      \A c \in CANONICAL_KEYS : InSeq(c, headers) => c \in DOMAIN inferred

\* ----------------------------------------------------------- inputs of main

s_Hunt_Code == <<"H", "u", "n", "t", " ", "C", "o", "d", "e">>
s_Year == <<"Y", "e", "a", "r">>
s_GMU == <<"G", "M", "U">>
s_Apps == <<"A", "p", "p", "s">>
s_Tags == <<"T", "a", "g", "s">>
s_Success_Rate == <<"S", "u", "c", "c", "e", "s", "s", " ", "R", "a", "t", "e">>
s_tags == <<"t", "a", "g", "s">>
s_success_rate == <<"s", "u", "c", "c", "e", "s", "s", " ", "r", "a", "t", "e">>
s_6B == <<"6", "B">>
s_50 == <<"5", "0">>
s_12_5pct == <<"1", "2", ".", "5", "%">>
s_7 == <<"7">>
s_40_5 == <<"4", "0", ".", "5">>
s_5 == <<"5">>
s_25 == <<"2", "5">>
s_2022 == <<"2", "0", "2", "2">>
s_nan == <<"n", "a", "n">>
s_12_5 == <<"1", "2", ".", "5">>
s_Unit_6_colon_x == <<"U", "n", "i", "t", " ", "6", ":", " ", "x">>
s_100 == <<"1", "0", "0">>
s_zone_eq_Unit_Code == <<"z", "o", "n", "e", "=", "U", "n", "i", "t", " ", "C", "o", "d", "e">>
s_zone_eq_Nope == <<"z", "o", "n", "e", "=", "N", "o", "p", "e">>
s_huntCode_eq_Nope == <<"h", "u", "n", "t", "C", "o", "d", "e", "=", "N", "o", "p", "e">>
s_year_eq_Nope == <<"y", "e", "a", "r", "=", "N", "o", "p", "e">>
s_zone_eq_Unit_Code_and_species == <<"z", "o", "n", "e", "=", "U", "n", "i", "t", " ", "C", "o", "d", "e", ",", "s", "p", "e", "c", "i", "e", "s">>
s_bogus_eq_x == <<"b", "o", "g", "u", "s", "=", "x">>
s_zone__eq__Unit_Code_padded == <<" ", "z", "o", "n", "e", " ", "=", " ", "U", "n", "i", "t", " ", "C", "o", "d", "e", " ">>

H_DRAW ==
   <<k_zone, h_Unit_Code, h_Species, h_Weapon, h_Total_Applicants, h_Permits,
     h_Success_pct, s_Hunt_Code>>

H_UNIT ==
   <<h_Unit_Code, h_Species, h_Weapon, h_Total_Applicants, h_Permits,
     h_Success_pct, s_Year>>

H_PDF ==
   <<s_GMU, h_Species, h_Weapon, s_Apps, s_Tags, s_Success_Rate>>

K_GEN ==
   <<k_zone, k_species, k_weapon, k_applicants, s_tags, s_success_rate,
     k_hunterSuccessRate, k_year>>

K_HARV ==
   <<k_zone, k_species, k_hunterSuccessRate, k_licensesSold, k_year>>

K_NEST ==
   <<k_huntCode, k_applicants, k_licenses, k_unitDescription, k_species,
     k_year>>

CsvDraw ==
   [kind |-> "csv", malformed |-> FALSE, headers |-> H_DRAW,
    rows |->
      << DictRow(H_DRAW,
            <<PyStr(s_6A), PyStr(s_6B), PyStr(s_Elk), PyStr(s_Rifle),
              PyStr(s_1_234), PyStr(s_50), PyStr(s_12_5pct),
              PyStr(s_ELK_1_006)>>),
         DictRow(H_DRAW,
            <<PyStr(s_12), PyStr(<<>>), PyStr(s_Deer), PyStr(s_Bow),
              PyStr(s_7)>>) >>]

CsvUnit ==
   [kind |-> "csv", malformed |-> FALSE, headers |-> H_UNIT,
    rows |->
      << DictRow(H_UNIT,
            <<PyStr(s_6B), PyStr(s_Elk), PyStr(s_Bow), PyStr(s_40_5),
              PyStr(s_5), PyStr(s_25), PyStr(s_2022)>>) >>]

CsvBad ==
   [kind |-> "csv", malformed |-> FALSE, headers |-> H_DRAW,
    rows |->
      << DictRow(H_DRAW,
            <<PyStr(s_6A), PyStr(s_6B), PyStr(s_Elk), PyStr(s_Rifle),
              PyStr(s_nan), PyStr(s_50), PyStr(s_12_5pct),
              PyStr(s_ELK_1_006)>>) >>]

JsonGeneric ==
   [kind |-> "json", malformed |-> FALSE, headers |-> K_GEN,
    rows |->
      << DictRow(K_GEN,
            <<PyStr(s_6A), PyStr(s_Elk), PyStr(s_Bow), PyInt(100), PyInt(10),
              PyFloat(12500), PyFloat(30000), PyInt(2023)>>),
         DictRow(K_HARV,
            <<PyStr(s_6a), PyStr(s_Elk), PyStr(s_12_5), PyStr(s_1_234),
              PyInt(2023)>>) >>]

JsonNested ==
   [kind |-> "json", malformed |-> FALSE, headers |-> K_NEST,
    rows |->
      << DictRow(K_NEST,
            <<PyStr(s_ELK_1_006),
              PyDict(DictRow(<<k_huntTotal>>, <<PyDict(DictRow(<<k_total>>, <<PyInt(120)>>))>>)),
              PyInt(10), PyStr(s_Unit_6_colon_x), PyStr(s_Elk), PyInt(2023)>>) >>]

PdfDraw ==
   [kind |-> "pdf", malformed |-> FALSE, headers |-> H_PDF,
    rows |->
      << DictRow(H_PDF,
            <<PyStr(s_12), PyStr(s_Deer), PyStr(s_Bow), PyStr(s_7),
              PyStr(s_7), PyStr(s_100)>>) >>]

\* A PDF table whose unit column no synonym names.
PdfUnit ==
   [kind |-> "pdf", malformed |-> FALSE, headers |-> H_UNIT,
    rows |->
      << DictRow(H_UNIT,
            <<PyStr(s_12), PyStr(s_Deer), PyStr(s_Bow), PyStr(s_7),
              PyStr(s_5), PyStr(s_25), PyStr(s_2022)>>) >>]

OtherFile ==
   [kind |-> "unknown", malformed |-> FALSE, headers |-> <<>>,
    rows |->
      <<  >>]

\* A .json file whose text json.loads cannot parse.
JsonBroken ==
   [kind |-> "json", malformed |-> TRUE, headers |-> <<>>, rows |-> <<>>]

ArgPool ==
   {PyNone,
    PyStr(s_zone_eq_Unit_Code),
    PyStr(s_zone_eq_Nope),
    PyStr(s_huntCode_eq_Nope),
    PyStr(s_year_eq_Nope),
    PyStr(s_zone_eq_Unit_Code_and_species),
    PyStr(s_bogus_eq_x),
    PyStr(s_zone__eq__Unit_Code_padded),
    PyStr(k_zone)}

\* --year
YearPool == {PyNone, PyInt(2023)}

\* The files of the raw directory: draw tables as CSV (one with a column
\* literally named zone beside a Unit Code column, one whose unit column no
\* synonym names, one with a cell that parses to NaN), a generic and a
\* nested-draw JSON, a JSON file that is not JSON, two PDF tables (one whose
\* unit column no synonym names), and a file of no supported kind.
FilePool ==
   {CsvDraw, CsvUnit, CsvBad, JsonGeneric, JsonNested, JsonBroken, PdfDraw,
    PdfUnit, OtherFile}

\* The most files in the raw directory.
MaxFiles == 2

FileLists == UNION {[1..n -> FilePool] : n \in 0..MaxFiles}

InitMain ==
   /\ pc = "args"
   /\ column_map_arg \in ArgPool
   /\ year_arg \in YearPool
   /\ raw_files \in FileLists
   /\ error = ""
   /\ manual_map = EmptyMap
   /\ downloaded = FALSE
   /\ file_idx = 1
   /\ file_log = <<>>
   /\ normalized = <<>>
   /\ idx = 1
   /\ merged = <<>>
   /\ cleaned = <<>>
   /\ written = FALSE
   /\ RowIdle
   /\ PdfIdle
   /\ XlsxIdle
   /\ ElkIdle
   /\ ClassIdle
   /\ headers = <<>>
   /\ inferred = EmptyMap

NextMain ==
   \/ ParseOverride
   \/ Download
   \/ SkipDownload
   \/ NormalizeFile
   \/ StartMerge
   \/ MergeStep
   \/ WriteOutput

\* A run of main on every override string, year and raw directory.
SpecMain == InitMain /\ [][NextMain]_vars

\* ------------------------------------------------------- properties of main

\* The members of a list.
Range(seq) == {seq[i] : i \in 1..Len(seq)}

\* The files a column map is built for: a CSV, a PDF with rows, a JSON with
\* rows that is not a nested draw report.
UsesColumnMap(file) ==
   \/ file.kind = "csv"
   \/ file.kind = "pdf" /\ file.rows # <<>>
   \/ /\ file.kind = "json"
      /\ file.rows # <<>>
      /\ \E i \in 1..Len(file.rows) :
            k_huntCode \notin DOMAIN file.rows[i] \/ k_applicants \notin DOMAIN file.rows[i]

\* The fields canonical_row requires of every row.
ClaimRequired ==
   {k_zone, k_species, k_weapon, k_drawApplicants, k_drawTags, k_hunterSuccessRate}

\* The position, among the records of a file, of the record row i produced.
RecordIndex(rowlog, i) ==
   Cardinality({j \in 1..i : rowlog[j] \notin {"rejected", "raise"}})

\* The column map used for a file maps every override key to the header of
\* the override.
OverrideInMap(e) ==
   \A k \in DOMAIN manual_map :
      k \in DOMAIN e.result.column_map /\ e.result.column_map[k] = manual_map[k]

\* C9 as stated: in the column map used for a CSV, generic-JSON or PDF file
\* every override key is mapped to the header of the override, and when that
\* header is absent from the headers of the file every row read is rejected.
C9_AbsentOverrideRejectsEveryRow ==
   \A n \in 1..Len(file_log) :
      UsesColumnMap(file_log[n].file) =>
         /\ OverrideInMap(file_log[n])
         /\ \A k \in DOMAIN manual_map :
               manual_map[k] \notin Range(file_log[n].file.headers) =>
                  \A i \in 1..Len(file_log[n].result.rowlog) :
                     file_log[n].result.rowlog[i] = "rejected"

\* C9, the rows of one file: a row canonical_row turns into a record has a
\* value under the override header of every required field (and of year when
\* there is no fallback year), and its zone is read from the override column.
OverrideReadThrough(e) ==
   \A i \in 1..Len(e.result.rowlog) :
      e.result.rowlog[i] = "canonical" =>
         /\ \A k \in (DOMAIN manual_map) \cap ClaimRequired :
               /\ manual_map[k] \in DOMAIN e.file.rows[i]
               /\ e.file.rows[i][manual_map[k]] # PyNone
         /\ (k_year \in DOMAIN manual_map /\ year_arg = PyNone) =>
               manual_map[k_year] \in DOMAIN e.file.rows[i]
         /\ k_zone \in DOMAIN manual_map =>
               e.result.records[RecordIndex(e.result.rowlog, i)].zone
                  = PyStr(Strip(ToStr(e.file.rows[i][manual_map[k_zone]])))

\* C9, amended: in the column map used for a CSV, generic-JSON or PDF file
\* every override key is mapped to the header of the override, whatever was
\* inferred for it and whether or not the file has that header.  A row is
\* rejected by canonical_row when the absent header is that of a required
\* field (or of year with no fallback year), so a CSV or PDF whose override of
\* a required field names an absent header yields no record; an absent
\* huntCode header only leaves huntCode out, and a generic-JSON row may still
\* be emitted by the harvest extractor.
C9_OverrideReplacesInferred ==
   \A n \in 1..Len(file_log) :
      UsesColumnMap(file_log[n].file) =>
         /\ OverrideInMap(file_log[n])
         /\ OverrideReadThrough(file_log[n])
         /\ \A k \in (DOMAIN manual_map) \cap ClaimRequired :
               /\ file_log[n].file.kind \in {"csv", "pdf"}
               /\ manual_map[k] \notin Range(file_log[n].file.headers)
               => file_log[n].result.records = <<>>

\* A file with a column literally named zone was normalized under the
\* override zone=Unit Code, and the zone of its record is the Unit Code cell.
C9_Witness ==
   \E n \in 1..Len(file_log) :
      /\ file_log[n].file.kind = "csv"
      /\ k_zone \in Range(file_log[n].file.headers)
      /\ k_zone \in DOMAIN manual_map
      /\ manual_map[k_zone] = h_Unit_Code
      /\ file_log[n].result.column_map[k_zone] = h_Unit_Code
      /\ file_log[n].result.records # <<>>
      /\ file_log[n].file.rows[1][k_zone] = PyStr(s_6A)
      /\ file_log[n].result.records[1].zone = PyStr(s_6B)

\* An override item is malformed: it has no "=", or the text before its first
\* "=", stripped, is not a canonical key.
ClaimItemBad(item) ==
   \/ \A i \in 1..Len(item) : item[i] # "="
   \/ \E i \in 1..Len(item) :
         /\ item[i] = "="
         /\ \A j \in 1..(i - 1) : item[j] # "="
         /\ Strip(SubSeq(item, 1, i - 1)) \notin CANONICAL_KEYS

\* An override string is malformed: it is not empty and one of its
\* comma-separated items is.
ClaimMalformed(raw) ==
   /\ raw.t = "str"
   /\ raw.s # <<>>
   /\ \E a \in 0..Len(raw.s) : \E b \in a..Len(raw.s) :
         /\ a = 0 \/ raw.s[a] = ","
         /\ b = Len(raw.s) \/ raw.s[b + 1] = ","
         /\ \A j \in (a + 1)..b : raw.s[j] # ","
         /\ ClaimItemBad(SubSeq(raw.s, a + 1, b))

\* The run has done nothing but read its arguments.
NothingDone ==
   /\ ~downloaded
   /\ file_log = <<>>
   /\ normalized = <<>>
   /\ cleaned = <<>>
   /\ ~written

\* C10: parse_manual_column_map returns a map whose keys are canonical keys
\* or raises, and raises (returning no partial map) exactly on a malformed
\* override string; a run parses the override before it downloads, normalizes
\* or writes anything, and a run with a malformed override ends in the error
\* with nothing downloaded, normalized or written.
C10_OverrideErrorsFatalAndFirst ==
   /\ parse_manual_column_map(column_map_arg).ok
         => DOMAIN parse_manual_column_map(column_map_arg).map \subseteq CANONICAL_KEYS
   /\ ClaimMalformed(column_map_arg) <=> ~parse_manual_column_map(column_map_arg).ok
   /\ ~parse_manual_column_map(column_map_arg).ok
         => parse_manual_column_map(column_map_arg).map = EmptyMap
   /\ pc = "args" => NothingDone /\ manual_map = EmptyMap
   /\ ClaimMalformed(column_map_arg)
         => pc \in {"args", "failed"} /\ NothingDone /\ manual_map = EmptyMap
   /\ DOMAIN manual_map \subseteq CANONICAL_KEYS

\* A run whose override has a valid item followed by a malformed one has
\* failed, with no partial map and nothing written.
C10_Witness ==
   /\ column_map_arg = PyStr(s_zone_eq_Unit_Code_and_species)
   /\ pc = "failed"
   /\ error = "ValueError"
   /\ manual_map = EmptyMap
   /\ NothingDone

\* ------------------------------------------- inputs of the number coercion

s_87pct == <<"8", "7", "%">>
s_pad_1_2pct == <<" ", "1", ",", "2", "%", " ">>

\* The characters the texts are built from: digits, the point, the two
\* characters coerce_number removes, whitespace, a sign, and the letters of "nan".
CoerceAlphabet == {"1", "2", ".", ",", "%", " ", "-", "n", "a", "N"}

\* The longest text built from the alphabet.
MaxText == 3

Texts == UNION {[1..n -> CoerceAlphabet] : n \in 0..MaxText}

\* The values coerce_number is given: None, numbers, the examples, every text.
ValuePool ==
   {PyNone, PyInt(7), PyInt(0), PyFloat(40500), PyNaN}
      \cup {PyStr(t) : t \in Texts \cup {s_1_234, s_87pct, s_N_A, s_pad_1_2pct}}

\* main has nothing to do: the state of a run that was never started.
MainIdle ==
   /\ error = ""
   /\ column_map_arg = PyNone
   /\ year_arg = PyNone
   /\ raw_files = <<>>
   /\ manual_map = EmptyMap
   /\ downloaded = FALSE
   /\ file_idx = 1
   /\ file_log = <<>>
   /\ normalized = <<>>
   /\ idx = 1
   /\ merged = <<>>
   /\ cleaned = <<>>
   /\ written = FALSE
   /\ headers = <<>>
   /\ inferred = EmptyMap

InitCoerce ==
   /\ pc = "coerce"
   /\ coerce_in \in ValuePool
   /\ coerce_out = PyNone
   /\ row_raw = EmptyMap
   /\ row_map = EmptyMap
   /\ row_year = PyNone
   /\ row_out = NoRow
   /\ PdfIdle
   /\ XlsxIdle
   /\ ElkIdle
   /\ ClassIdle
   /\ MainIdle

NextCoerce == Coerce

\* coerce_number on every value of the pool.
SpecCoerce == InitCoerce /\ [][NextCoerce]_vars

\* --------------------------------------- properties of the number coercion

\* The text without the characters the coercion removes.
ClaimCleaned(text) == SelectSeq(text, LAMBDA c : c \notin {"%", ","})

\* A decimal numeral: digits with at most one point and at least one digit.
ClaimIsDecimal(t) ==
   /\ \A i \in 1..Len(t) : t[i] \in {"0", "1", "2", "3", "4", "5", "6", "7", "8", "9", "."}
   /\ Cardinality({i \in 1..Len(t) : t[i] = "."}) <= 1
   /\ \E i \in 1..Len(t) : t[i] # "."

\* A text float() accepts, without surrounding whitespace: an optional sign,
\* then a decimal numeral or the word nan.
ClaimIsNumeral(t) ==
   LET body == IF t # <<>> /\ Head(t) \in {"+", "-"} THEN Tail(t) ELSE t
   IN ClaimIsDecimal(body) \/ LowerStr(body) = <<"n", "a", "n">>

s_blank == <<" ", " ">>
s_pad_6B == <<" ", "6", "B", " ">>
s_neg_5 == <<"-", "5">>
s_150 == <<"1", "5", "0">>

\* A column map with every canonical field mapped: zone to the header
\* "Unit Code", every other field to a header of its own name.
FullMap == [k \in CANONICAL_KEYS |-> IF k = k_zone THEN h_Unit_Code ELSE k]

\* The cell of a field in the row every input is a change of.
BaseCell(k) ==
   CASE k = k_year -> PyStr(s_2022)
     [] k = k_zone -> PyStr(s_6B)
     [] k = k_species -> PyStr(s_Elk)
     [] k = k_weapon -> PyStr(s_Rifle)
     [] k = k_drawApplicants -> PyStr(s_50)
     [] k = k_drawTags -> PyStr(s_5)
     [] k = k_hunterSuccessRate -> PyStr(s_12_5pct)
     [] k = k_huntCode -> PyStr(s_ELK_1_006)

\* A row with a cell under every header of FullMap, accepted as it is.
BaseRow ==
   [h \in {FullMap[k] : k \in CANONICAL_KEYS} |->
      BaseCell(CHOOSE k \in CANONICAL_KEYS : FullMap[k] = h)]

\* The cells a change puts into the row: a missing cell, empty and blank
\* text, padded text, text that is no number, negative, large, not-a-number
\* and separated numbers, and JSON numbers.
CellPool ==
   {PyNone, PyStr(<<>>), PyStr(s_blank), PyStr(s_pad_6B), PyStr(s_N_A),
    PyStr(s_neg_5), PyStr(s_150), PyStr(s_nan), PyStr(s_1_234),
    PyStr(s_40_5), PyInt(7), PyInt(0), PyFloat(0 - 2500)}

\* One change of the input: a cell of the row replaced, the key of a field
\* removed from the row, the field removed from the column map, or the field
\* mapped to a header the row does not have.
Changes ==
   [kind : {"cell"}, key : CANONICAL_KEYS, cell : CellPool]
      \cup [kind : {"nokey", "unmapped", "absent"}, key : CANONICAL_KEYS, cell : {PyNone}]

\* The most changes made to the base input.
MaxChanges == 1

\* The input after one change.
Changed(inp, c) ==
   CASE c.kind = "cell" ->
           [raw |-> Put(inp.raw, FullMap[c.key], c.cell), map |-> inp.map]
     [] c.kind = "nokey" ->
           [raw |-> [h \in DOMAIN inp.raw \ {FullMap[c.key]} |-> inp.raw[h]],
            map |-> inp.map]
     [] c.kind = "unmapped" ->
           [raw |-> inp.raw, map |-> [k \in DOMAIN inp.map \ {c.key} |-> inp.map[k]]]
     [] c.kind = "absent" ->
           [raw |-> inp.raw, map |-> Put(inp.map, c.key, h_Notes)]

\* The input after the changes of a list, applied in order.
RECURSIVE ChangedBy(_, _)
ChangedBy(inp, cs) ==
   IF cs = <<>> THEN inp ELSE ChangedBy(Changed(inp, Head(cs)), Tail(cs))

\* The rows and column maps canonical_row is given.
RowInputs ==
   {ChangedBy([raw |-> BaseRow, map |-> FullMap], cs) :
       cs \in UNION {[1..n -> Changes] : n \in 0..MaxChanges}}

InitRow ==
   /\ pc = "row"
   /\ \E inp \in RowInputs : row_raw = inp.raw /\ row_map = inp.map
   /\ row_year \in YearPool
   /\ row_out = NoRow
   /\ coerce_in = PyNone
   /\ coerce_out = PyNone
   /\ PdfIdle
   /\ XlsxIdle
   /\ ElkIdle
   /\ ClassIdle
   /\ MainIdle

NextRow == Canonicalize

\* canonical_row on every input of the pool.
SpecRow == InitRow /\ [][NextRow]_vars

\* -------------------------------------- properties of the row canonicalizer

\* The six fields canonical_row requires.
ClaimRequiredText == {k_zone, k_species, k_weapon}
ClaimRequiredNumeric == {k_drawApplicants, k_drawTags, k_hunterSuccessRate}

\* The field is mapped to a header and the row has a value under that header.
ClaimPresent(k) ==
   /\ k \in DOMAIN row_map
   /\ row_map[k] \in DOMAIN row_raw
   /\ row_raw[row_map[k]] # PyNone

\* The value of the field is a number or a text that parses as one.
ClaimParses(k) ==
   /\ ClaimPresent(k)
   /\ LET v == row_raw[row_map[k]]
      IN \/ v.t \in {"int", "float"}
         \/ v.t = "str" /\ ClaimIsNumeral(Strip(ClaimCleaned(v.s)))

\* Every required field is resolved and a year is available.
ClaimAcceptable ==
   /\ \A k \in ClaimRequiredText : ClaimPresent(k)
   /\ \A k \in ClaimRequiredNumeric : ClaimParses(k)
   /\ ClaimParses(k_year) \/ row_year # PyNone

\* C12: canonical_row returns no record if and only if one of the six
\* required fields is unresolved through the column map (unmapped, missing in
\* the row, or for the three numeric fields not parseable) or no year is
\* available; in every other case it returns a record.
C12_RejectedIffUnresolved ==
   pc = "rowdone" =>
      /\ row_out.kind = "none" <=> ~ClaimAcceptable
      /\ ClaimAcceptable => row_out.kind = "row"

\* A non-empty string without leading or trailing whitespace.
ClaimTrimmedText(v) == v.t = "str" /\ v.s # <<>> /\ Strip(v.s) = v.s

\* C13: every record canonical_row returns has zone, species and weapon that
\* are non-empty strings without leading or trailing whitespace.
C13_TextFieldsNonEmptyTrimmed ==
   (pc = "rowdone" /\ row_out.kind = "row") =>
      /\ ClaimTrimmedText(row_out.rec["zone"])
      /\ ClaimTrimmedText(row_out.rec["species"])
      /\ ClaimTrimmedText(row_out.rec["weapon"])

\* C14: in every record canonical_row returns, drawApplicants and drawTags
\* are integers >= 0, also when the source value is negative.
C14_CountsNonNegative ==
   (pc = "rowdone" /\ row_out.kind = "row") =>
      /\ row_out.rec["drawApplicants"].t = "int"
      /\ row_out.rec["drawApplicants"].n >= 0
      /\ row_out.rec["drawTags"].t = "int"
      /\ row_out.rec["drawTags"].n >= 0

\* C15: in every record canonical_row returns, hunterSuccessRate is a float
\* in the closed range [0, 100].
C15_SuccessRateInRange ==
   (pc = "rowdone" /\ row_out.kind = "row") =>
      /\ row_out.rec["hunterSuccessRate"].t = "float"
      /\ row_out.rec["hunterSuccessRate"].n >= 0
      /\ row_out.rec["hunterSuccessRate"].n <= 100 * Scale

\* ------------------------------------------ properties of failure isolation

\* C16: a malformed file (here a .json file that is not JSON) is skipped and
\* does not end the run: the run never stops on a malformed file, so that
\* the files after it are processed and the output is written.
C16_MalformedFileDoesNotEndRun ==
   (pc = "failed" /\ file_log # <<>>) => ~file_log[Len(file_log)].file.malformed

\* The column map used for the file of a log entry lacks a required field.
ClaimLacksMapping(e) ==
   /\ e.file.kind \in {"csv", "pdf"}
   /\ UsesColumnMap(e.file)
   /\ \E k \in ClaimRequired : k \notin DOMAIN e.result.column_map

\* C17: a CSV or PDF-table file whose column map (inferred plus overrides)
\* lacks a mapping for one of the six required fields contributes no record
\* and has none of its rows read, whatever they contain, and the run goes on
\* to the next file.
C17_UnmappedFileSkipped ==
   \A n \in 1..Len(file_log) :
      ClaimLacksMapping(file_log[n]) =>
         /\ file_log[n].result.status = "ok"
         /\ file_log[n].result.records = <<>>
         /\ file_log[n].result.rowlog = <<>>
         /\ n = Len(file_log) => pc # "failed" /\ file_idx = n + 1

\* A CSV without a zone mapping, holding a row with every other field, was
\* skipped, the file after it yielded records, and the output was written.
C17_Witness ==
   /\ pc = "done"
   /\ written
   /\ Len(file_log) = 2
   /\ ClaimLacksMapping(file_log[1])
   /\ file_log[1].file.kind = "csv"
   /\ file_log[1].file.rows # <<>>
   /\ file_log[2].result.records # <<>>

\* ------------------------------------------------ inputs of the PDF table

\* The most columns of a header, parts of a line, and lines after the header.
MaxWidth == 5
MaxParts == 6
MaxLines == 1

\* The separator a line is written with in each mode.
Separator(mode) == IF mode = "comma" THEN <<",">> ELSE <<" ", " ", " ">>

\* parts joined by the separator.
RECURSIVE Joined(_, _)
Joined(parts, sep) ==
   IF parts = <<>> THEN <<>>
   ELSE IF Len(parts) = 1 THEN parts[1]
   ELSE parts[1] \o sep \o Joined(Tail(parts), sep)

\* The name of column j: "unit" for the first (the header line is found by
\* such a word), a letter for the others; in a "repeat" header the last
\* column repeats the name of the first.
ColumnName(j, n, shape) ==
   IF j = 1 \/ (shape = "repeat" /\ j = n /\ n > 2) THEN <<"u", "n", "i", "t">>
   ELSE <<LowerChars[j]>>

\* A header line of n columns.
HeaderLine(n, shape, mode) ==
   Joined([j \in 1..n |-> ColumnName(j, n, shape)], Separator(mode))

\* Part i of a data line: a digit; in an "inner" line the first part holds
\* a single space, in a "blank" line the second part is empty.
PartText(i, shape) ==
   IF shape = "inner" /\ i = 1 THEN <<"1", " ", "x">>
   ELSE IF shape = "blank" /\ i = 2 THEN <<>>
   ELSE <<Ascii[Ord("0") + i]>>

\* A data line written with k parts, stripped as the page text is.
DataLine(k, shape, mode) ==
   Strip(Joined([i \in 1..k |-> PartText(i, shape)], Separator(mode)))

\* The non-empty lines of a mode.
LinePool(mode) ==
   {DataLine(k, shape, mode) : k \in 1..MaxParts, shape \in {"plain", "inner", "blank"}}
      \ {<<>>}

InitPdf ==
   /\ pc = "pdf"
   /\ split_mode \in {"comma", "spaces"}
   /\ \E n \in 2..MaxWidth, shape \in {"distinct", "repeat"} :
         pdf_header = HeaderLine(n, shape, split_mode)
   /\ pdf_lines \in UNION {[1..m -> LinePool(split_mode)] : m \in 0..MaxLines}
   /\ pdf_idx = 1
   /\ pdf_rows = <<>>
   /\ pdf_log = <<>>
   /\ RowIdle
   /\ MainIdle
   /\ XlsxIdle
   /\ ElkIdle
   /\ ClassIdle

NextPdf == PdfLine \/ PdfReturn

\* The row loop of _iter_pdf_rows on every header and line list of the pool.
SpecPdf == InitPdf /\ [][NextPdf]_vars

\* ------------------------------------------- properties of the PDF table

\* The header's column count.
ClaimWidth == Len(split_line(pdf_header, split_mode))

\* C18: a data line that splits into k parts under a header of n columns is
\* discarded (never emitted as a row) whenever k is fewer than half of n.
C18_ShortRowDropped ==
   \A i \in 1..Len(pdf_log) :
      2 * Len(pdf_log[i].parts) < ClaimWidth => ~pdf_log[i].kept

\* The parts from position j to the last, in order, with single spaces between.
RECURSIVE ClaimRejoined(_, _)
ClaimRejoined(parts, j) ==
   IF j >= Len(parts) THEN parts[j]
   ELSE parts[j] \o <<" ">> \o ClaimRejoined(parts, j + 1)

\* The cells of a kept line: its parts, right-padded with empty strings to n
\* cells, or its first n - 1 parts and the rest rejoined as the last cell.
ClaimShaped(parts, cells, n) ==
   /\ Len(cells) = n
   /\ \A j \in 1..n :
         IF j > Len(parts) THEN cells[j] = <<>>
         ELSE IF j = n /\ Len(parts) > n THEN cells[j] = ClaimRejoined(parts, n)
         ELSE cells[j] = parts[j]

\* The position, among the rows emitted, of the row of line i.
ClaimRowIndex(i) == Cardinality({j \in 1..i : pdf_log[j].kept})

\* The row holds the cells under the header's names, a repeated name holding
\* the cell of its last column.
ClaimZipped(row, hs, cells) ==
   /\ DOMAIN row = {hs[j] : j \in 1..Len(hs)}
   /\ \A j \in 1..Len(hs) :
         (\A m \in (j + 1)..Len(hs) : hs[m] # hs[j]) => row[hs[j]] = PyStr(cells[j])

ClaimNumericFields ==
   {"drawApplicants", "drawTags", "licensesSold", "huntersReporting",
    "percentReporting", "estimatedBulls", "estimatedCows",
    "estimatedHarvestTotal", "hunterSuccessRate", "satisfactionRating",
    "daysHunted"}

\* The value is a number or a text that parses as one.
ClaimNumeric(v) ==
   \/ v.t \in {"int", "float", "nan"}
   \/ v.t = "str" /\ ClaimIsNumeral(Strip(ClaimCleaned(v.s)))

\* The incoming number is strictly greater than the stored one.
ClaimGreater(incoming, stored) ==
   /\ coerce_number(incoming).t = "float"
   /\ coerce_number(stored).t = "float"
   /\ coerce_number(incoming).n > coerce_number(stored).n

\* The rule for one field of a stored record and an incoming row: the stored
\* value changes only to an incoming value that parses and is greater than
\* it or finds it absent or unparseable, and never to one that does not parse.
ClaimNumericRule(stored, after, incoming) ==
   /\ after # stored =>
         /\ after = incoming
         /\ ClaimNumeric(incoming)
         /\ ~ClaimNumeric(stored) \/ ClaimGreater(incoming, stored)
   /\ (~ClaimNumeric(incoming) /\ incoming # stored) => after # incoming

\* The step merges the next row into the stored record of its key.
ClaimMergesInto(k) ==
   /\ pc = "merge"
   /\ idx <= Len(normalized)
   /\ idx' = idx + 1
   /\ k \in 1..Len(merged)
   /\ merged[k].key = ClaimKey(normalized[idx])

\* C20: when an incoming record shares a key with a stored record, a field of
\* the prefer-larger-numeric set is replaced only if the incoming value
\* parses numerically and either is strictly greater than the stored value or
\* the stored value is absent or unparseable; an incoming value that does not
\* parse numerically never becomes the stored value of such a field.
C20_NumericReplacementRule ==
   [][\A k \in 1..Len(merged) :
         ClaimMergesInto(k) =>
            \A f \in ClaimNumericFields \cap DOMAIN normalized[idx] :
               ClaimNumericRule(Get(merged[k].rec, f), Get(merged'[k].rec, f),
                                normalized[idx][f])]_vars

\* ------------------------------------------ inputs of the field-wise merge

s_ANY_padded == <<" ", "A", "N", "Y", " ">>
s_Gun == <<"G", "u", "n">>
s_Bow_padded == <<" ", "B", "o", "w", " ">>

\* The values of the string field: absent-like, placeholders in several
\* spellings, and strings of equal and of different trimmed length.
StringPool ==
   {PyNone, PyStr(<<>>), PyStr(s_blank), PyStr(s_Any), PyStr(s_any),
    PyStr(s_ANY_padded), PyStr(s_Unknown), PyStr(s_unknown), PyStr(s_Bow),
    PyStr(s_Gun), PyStr(s_Bow_padded), PyStr(s_Rifle)}

\* The values of the numeric field.
SoldPool == {PyNone, PyStr(<<>>), PyStr(s_blank), PyStr(s_N_A), PyStr(s_5), PyInt(7)}

\* A record of the hunt ELK-1-006 in zone 6A of 2023.
FieldRecord(weapon, success) ==
   [year |-> PyInt(2023), zone |-> PyStr(s_6A), huntCode |-> PyStr(s_ELK_1_006),
    species |-> PyStr(s_Elk), weapon |-> weapon, hunterSuccessRate |-> success]

\* Records that share one key and differ in the weapon, in licensesSold, or
\* lack the weapon field.
FieldRows ==
   {FieldRecord(w, PyFloat(12500)) : w \in StringPool}
      \cup {Put(FieldRecord(PyStr(s_Bow), PyFloat(12500)), "licensesSold", v) : v \in SoldPool}
      \cup {[year |-> PyInt(2023), zone |-> PyStr(s_6A), huntCode |-> PyStr(s_ELK_1_006)]}

\* The most records merged under the key.
MaxFieldRows == 2

InitField ==
   /\ pc = "merge"
   /\ normalized \in UNION {[1..n -> FieldRows] : n \in 0..MaxFieldRows}
   /\ error = ""
   /\ column_map_arg = PyNone
   /\ year_arg = PyNone
   /\ raw_files = <<>>
   /\ manual_map = EmptyMap
   /\ downloaded = FALSE
   /\ file_idx = 1
   /\ file_log = <<>>
   /\ idx = 1
   /\ merged = <<>>
   /\ cleaned = <<>>
   /\ written = FALSE
   /\ RowIdle
   /\ PdfIdle
   /\ XlsxIdle
   /\ ElkIdle
   /\ ClassIdle
   /\ headers = <<>>
   /\ inferred = EmptyMap

\* merge_rows and the sort of main, on records of one key.
SpecField == InitField /\ [][NextMerge]_vars

\* -------------------------------------- properties of the field-wise merge

\* The value is absent, null or a blank string.
ClaimEmpty(v) == v.t = "none" \/ (v.t = "str" /\ Strip(v.s) = <<>>)

\* The string is the word, whatever its case and surrounding whitespace.
ClaimIsWord(v, word) == v.t = "str" /\ LowerStr(Strip(v.s)) = word

\* The incoming string replaces the stored value of a string field.
ClaimStringReplaces(stored, incoming) ==
   /\ ~ClaimEmpty(incoming)
   /\ \/ ClaimEmpty(stored)
      \/ ClaimIsWord(stored, s_any) /\ ~ClaimIsWord(incoming, s_any)
      \/ ClaimIsWord(stored, s_unknown) /\ ~ClaimIsWord(incoming, s_unknown)
      \/ Len(Strip(incoming.s)) > Len(Strip(stored.s))

\* The fields that hold strings.
ClaimStringFields == {"zone", "species", "weapon", "huntCode"}

\* C21: for a string field of a record merged into an existing key, the stored
\* value is replaced by the incoming non-empty string exactly when the stored
\* value is absent or empty, or is "any" or "unknown" in any case and the
\* incoming value is not that word, or the incoming trimmed string is strictly
\* longer than the stored trimmed string; strings of equal length that are no
\* placeholders keep the stored value.
C21_StringReplacementRule ==
   [][\A k \in 1..Len(merged) :
         ClaimMergesInto(k) =>
            \A f \in ClaimStringFields \cap DOMAIN normalized[idx] :
               Get(merged'[k].rec, f)
                  = IF ClaimStringReplaces(Get(merged[k].rec, f), normalized[idx][f])
                    THEN normalized[idx][f]
                    ELSE Get(merged[k].rec, f)]_vars

\* "Bow" was stored and "Gun" merged into it, and "Bow" is still stored.
C21_Witness ==
   /\ pc = "done"
   /\ Len(normalized) = 2
   /\ Get(normalized[1], "weapon") = PyStr(s_Bow)
   /\ Get(normalized[2], "weapon") = PyStr(s_Gun)
   /\ Len(merged) = 1
   /\ Get(merged[1].rec, "weapon") = PyStr(s_Bow)

\* C22: when an incoming record is merged into an existing key, every field
\* whose incoming value is null or a blank string leaves the stored value of
\* that field unchanged, and no merge removes a stored field or makes a
\* stored non-empty field empty.
C22_EmptyIncomingChangesNothing ==
   [][\A k \in 1..Len(merged) :
         ClaimMergesInto(k) =>
            /\ \A f \in DOMAIN normalized[idx] :
                  ClaimEmpty(normalized[idx][f]) =>
                     /\ (f \in DOMAIN merged'[k].rec) = (f \in DOMAIN merged[k].rec)
                     /\ Get(merged'[k].rec, f) = Get(merged[k].rec, f)
            /\ \A f \in DOMAIN merged[k].rec :
                  /\ f \in DOMAIN merged'[k].rec
                  /\ ~ClaimEmpty(merged[k].rec[f]) => ~ClaimEmpty(merged'[k].rec[f])]_vars

\* A record with weapon "Bow" and licensesSold 7 was stored, a record with a
\* blank licensesSold was merged into it, and both values are still stored.
C22_Witness ==
   /\ pc = "done"
   /\ Len(normalized) = 2
   /\ Get(normalized[1], "licensesSold") = PyInt(7)
   /\ Get(normalized[2], "licensesSold") = PyStr(s_blank)
   /\ Len(merged) = 1
   /\ Get(merged[1].rec, "licensesSold") = PyInt(7)
   /\ Get(merged[1].rec, "weapon") = PyStr(s_Bow)

\* ---------------------------------------------------------------------
\* Inputs of the JSON row routing
\* ---------------------------------------------------------------------

\* A key the JSON object does not have.
Absent == [t |-> "absent", s |-> <<>>, n |-> 0]

\* The keys of a row of a JSON payload, in the order of the object.
ItemKeys ==
   <<k_zone, k_gmu, k_species, k_weapon, k_applicants, s_tags, s_success_rate,
     k_hunterSuccessRate, k_year, k_licensesSold>>

\* A JSON object: the keys it has, in order, and the dict json.loads returns.
ObjectOf(keys, cells) ==
   LET kept == SelectSeq([i \in 1..Len(keys) |-> <<keys[i], cells[i]>>],
                         LAMBDA p : p[2] # Absent)
   IN [keys |-> [i \in 1..Len(kept) |-> kept[i][1]],
       row |-> DictRow([i \in 1..Len(kept) |-> kept[i][1]],
                       [i \in 1..Len(kept) |-> kept[i][2]])]

\* A row of a payload that is not a nested draw report.
ItemOf(cells) == ObjectOf(ItemKeys, cells)

\* The draw columns of a row: weapon, applicants, tags and "success rate",
\* or none of them.
DrawCells(draw) ==
   IF draw THEN <<PyStr(s_Bow), PyInt(100), PyInt(10), PyFloat(30000)>>
   ELSE <<Absent, Absent, Absent, Absent>>

\* The rows a payload is made of: zone absent, blank or "6A"; gmu absent or
\* "12"; hunterSuccessRate absent, "12.5" or "N/A"; year absent, 2023 or
\* "nan"; licensesSold absent or "1,234"; with and without the draw columns.
ItemPool ==
   {ItemOf(<<z, g, PyStr(s_Elk)>> \o DrawCells(d) \o <<sc, y, sold>>) :
       z \in {Absent, PyStr(s_blank), PyStr(s_6A)},
       g \in {Absent, PyStr(s_12)},
       d \in BOOLEAN,
       sc \in {Absent, PyStr(s_12_5), PyStr(s_N_A)},
       y \in {Absent, PyInt(2023), PyStr(s_nan)},
       sold \in {Absent, PyStr(s_1_234)}}

\* A row with every draw column and no harvest field.
LeadItem ==
   ItemOf(<<PyStr(s_6B), Absent, PyStr(s_Elk), PyStr(s_Rifle), PyInt(50),
            PyInt(5), PyFloat(20000), Absent, PyInt(2022), Absent>>)

\* normalize_json: the payload of a file, sample_headers the keys of its
\* first row
JsonFileOf(items) ==
   [kind |-> "json", malformed |-> FALSE, headers |-> items[1].keys,
    rows |-> [i \in 1..Len(items) |-> items[i].row]]

\* The keys of a row of a nested draw report.
NestedKeys ==
   <<k_huntCode, k_applicants, k_licenses, k_allocation, k_unitDescription,
     k_species, k_year>>

\* {inner: {"total": v}}
TotalDict(inner, v) ==
   PyDict(DictRow(<<inner>>, <<PyDict(DictRow(<<k_total>>, <<v>>))>>))

\* A row of a nested draw report.
NestedOf(applicants, licenses, allocation) ==
   ObjectOf(NestedKeys,
            <<PyStr(s_ELK_1_006), applicants, licenses, allocation,
              PyStr(s_Unit_6_colon_x), PyStr(s_Elk), PyInt(2023)>>)

\* The rows of a nested draw report: applicants a block with a total of
\* 120, 12.5 or "N/A", a block without huntTotal, the flat 80, "N/A" or
\* null; licenses absent, 10 or "N/A"; allocation absent, a block with a
\* total of 12, 13.5 or "N/A", or the flat 7.
NestedPool ==
   {NestedOf(a, l, al) :
       a \in {TotalDict(k_huntTotal, PyInt(120)), TotalDict(k_huntTotal, PyFloat(12500)),
              TotalDict(k_huntTotal, PyStr(s_N_A)), PyDict(EmptyMap), PyInt(80),
              PyStr(s_N_A), PyNone},
       l \in {Absent, PyInt(10), PyStr(s_N_A)},
       al \in {Absent, TotalDict(k_licensesByResidency, PyInt(12)),
               TotalDict(k_licensesByResidency, PyFloat(13500)),
               TotalDict(k_licensesByResidency, PyStr(s_N_A)), PyInt(7)}}

\* A nested row with both totals.
NestedLead ==
   NestedOf(TotalDict(k_huntTotal, PyInt(300)), PyInt(30),
            TotalDict(k_licensesByResidency, PyInt(25)))

\* The payloads: one row of a pool, alone, after or before the lead row of
\* its shape.
JsonFiles ==
   {JsonFileOf(items) :
       items \in UNION ({{<<it>>, <<LeadItem, it>>, <<it, LeadItem>>} : it \in ItemPool}
                        \cup {{<<it>>, <<NestedLead, it>>} : it \in NestedPool})}

InitJson ==
   /\ pc = "normalize"
   /\ raw_files \in {<<f>> : f \in JsonFiles}
   /\ year_arg \in YearPool
   /\ column_map_arg = PyNone
   /\ error = ""
   /\ manual_map = EmptyMap
   /\ downloaded = FALSE
   /\ file_idx = 1
   /\ file_log = <<>>
   /\ normalized = <<>>
   /\ idx = 1
   /\ merged = <<>>
   /\ cleaned = <<>>
   /\ written = FALSE
   /\ RowIdle
   /\ PdfIdle
   /\ XlsxIdle
   /\ ElkIdle
   /\ ClassIdle
   /\ headers = <<>>
   /\ inferred = EmptyMap

NextJson == NormalizeFile

\* normalize_json on every payload of the pool.
SpecJson == InitJson /\ [][NextJson]_vars

\* ---------------------------------------------------------------------
\* Properties of the JSON row routing
\* ---------------------------------------------------------------------

\* The text of the zone of a row, the gmu standing in for a missing zone.
ClaimZoneText(item) ==
   IF Get(item, k_zone) # PyNone /\ Get(item, k_zone) # PyStr(<<>>)
   THEN Strip(ToStr(Get(item, k_zone)))
   ELSE IF Get(item, k_gmu) # PyNone THEN Strip(ToStr(Get(item, k_gmu)))
   ELSE <<>>

\* The harvest extractor succeeds: a non-empty zone or gmu, a
\* hunterSuccessRate that parses, a year in the row or given with --year.
ClaimHarvestSucceeds(item, fallback_year) ==
   /\ ClaimZoneText(item) # <<>>
   /\ coerce_number(Get(item, k_hunterSuccessRate)) # PyNone
   /\ coerce_number(Get(item, k_year)) # PyNone \/ fallback_year # PyNone

\* The row has one of the two harvest fields.
ClaimHarvestFields(item) ==
   k_licensesSold \in DOMAIN item \/ k_estimatedHarvestTotal \in DOMAIN item

\* The route of a row as stated: harvest first for a row with a harvest
\* field, then the generic record, then the harvest record, then nothing.
ClaimRoute(item, cmap, fallback_year) ==
   IF ClaimHarvestFields(item) /\ ClaimHarvestSucceeds(item, fallback_year)
   THEN "harvest"
   ELSE IF canonical_row(item, cmap, fallback_year).kind = "row" THEN "canonical"
   ELSE IF ClaimHarvestSucceeds(item, fallback_year) THEN "fallback"
   ELSE "rejected"

\* The record of a row on a route.
ClaimRouted(route, item, cmap, fallback_year) ==
   IF route = "rejected" THEN <<>>
   ELSE IF route = "canonical" THEN <<canonical_row(item, cmap, fallback_year).rec>>
   ELSE <<_normalize_harvest_row(item, fallback_year).rec>>

RECURSIVE ClaimEmitted(_, _, _, _)
\* The records of the rows from i on, one at most for each row.
ClaimEmitted(rows, cmap, fallback_year, i) ==
   IF i > Len(rows) THEN <<>>
   ELSE ClaimRouted(ClaimRoute(rows[i], cmap, fallback_year), rows[i], cmap,
                    fallback_year)
        \o ClaimEmitted(rows, cmap, fallback_year, i + 1)

\* A payload that is not a nested draw report.
ClaimGenericJson(file) ==
   /\ file.kind = "json"
   /\ ~file.malformed
   /\ file.rows # <<>>
   /\ ~IsNestedDraw(file.rows)

\* C23: every row of a JSON payload that is not a nested draw report takes
\* the stated route: the harvest record when the row has licensesSold or
\* estimatedHarvestTotal and the harvest extractor succeeds, otherwise the
\* generic record when canonicalization succeeds, otherwise the harvest
\* record when the extractor succeeds, otherwise no record; the file yields
\* the records of its rows in order, one at most for each row.
C23_JsonRowRouting ==
   \A n \in DOMAIN file_log :
      ClaimGenericJson(file_log[n].file) =>
         /\ file_log[n].result.status = "ok"
         /\ file_log[n].result.rowlog =
               [i \in 1..Len(file_log[n].file.rows) |->
                  ClaimRoute(file_log[n].file.rows[i],
                             file_log[n].result.column_map, year_arg)]
         /\ file_log[n].result.records =
               ClaimEmitted(file_log[n].file.rows, file_log[n].result.column_map,
                            year_arg, 1)

\* ---------------------------------------------------------------------
\* Properties of the nested draw report
\* ---------------------------------------------------------------------

\* item[outer][inner]["total"], None when a level is missing.
ClaimNested(item, outer, inner) ==
   IF Get(item, outer).t # "dict" THEN PyNone
   ELSE IF Get(Get(item, outer).d, inner).t # "dict" THEN PyNone
   ELSE Get(Get(Get(item, outer).d, inner).d, k_total)

\* The count as stated: the rounded nested total when that parses, otherwise
\* the rounded flat value; None when neither parses.
ClaimCount(nested, flat) ==
   IF coerce_number(nested) # PyNone THEN RoundToInt(coerce_number(nested))
   ELSE IF coerce_number(flat) # PyNone THEN RoundToInt(coerce_number(flat))
   ELSE PyNone

\* The two counts of the record of a nested row are the stated ones.
ClaimDrawCounts(item, rec) ==
   /\ rec["drawApplicants"] =
         ClaimCount(ClaimNested(item, k_applicants, k_huntTotal),
                    Get(item, k_applicants))
   /\ rec["drawTags"] =
         ClaimCount(ClaimNested(item, k_allocation, k_licensesByResidency),
                    Get(item, k_licenses))

\* A payload that is a nested draw report.
ClaimNestedJson(file) ==
   /\ file.kind = "json"
   /\ ~file.malformed
   /\ file.rows # <<>>
   /\ IsNestedDraw(file.rows)

\* C24: in the record of every row of a nested draw report, drawApplicants
\* is the rounded applicants.huntTotal.total when that parses and otherwise
\* the rounded flat applicants value, and drawTags is the rounded
\* allocation.licensesByResidency.total when that parses and otherwise the
\* rounded flat licenses value; no other field is the source of either.
C24_NestedDrawCounts ==
   \A n \in DOMAIN file_log :
      ClaimNestedJson(file_log[n].file) =>
         \A i \in DOMAIN file_log[n].result.rowlog :
            file_log[n].result.rowlog[i] = "nested" =>
               ClaimDrawCounts(file_log[n].file.rows[i],
                               file_log[n].result.records[
                                  RecordIndex(file_log[n].result.rowlog, i)])

\* ---------------------------------------------------------------------
\* Inputs of the key of a stored record
\* ---------------------------------------------------------------------

\* Records whose keys coincide through case and whitespace: the unit-6 mule
\* deer rows without a hunt code (one with a blank hunt code, one with the
\* weapon "Any"), the unit-6 rows of hunt ELK-1-006 (draw and harvest), and
\* a unit-12 row with an empty weapon.
KeyPool ==
   {DrawRecord(2023, s_Unit_6, <<>>, s_Mule_Deer, s_Bow, 40, 5, PyFloat(25000)),
    DrawRecord(2023, s_unit__6, <<>>, s_MULE__DEER, s_bow, 45, 4, PyFloat(12500)),
    DrawRecord(2023, s_Unit_6, <<>>, s_Mule_Deer, s_Any, 40, 5, PyFloat(25000)),
    Put(DrawRecord(2023, s_Unit_6, <<>>, s_Mule_Deer, s_Bow, 41, 5, PyFloat(25000)),
        "huntCode", PyStr(s_blank)),
    DrawRecord(2023, s_Unit_6, s_elk_1_006, s_Elk, s_Any, 500, 10, PyFloat(0)),
    DrawRecord(2023, s_unit__6, s_ELK_1_006, s_Mule_Deer, s_Rifle, 480, 12, PyFloat(34500)),
    HarvestRecord(2023, s_Unit_6, s_ELK_1_006, s_Elk, s_Unknown, PyFloat(12500), PyStr(s_1_234)),
    DrawRecord(2022, s_12, <<>>, s_Deer, <<>>, 7, 7, PyFloat(100000))}

MaxKeyRows == 3

InitKey ==
   /\ pc = "merge"
   /\ normalized \in UNION {[1..n -> KeyPool] : n \in 0..MaxKeyRows}
   /\ error = ""
   /\ column_map_arg = PyNone
   /\ year_arg = PyNone
   /\ raw_files = <<>>
   /\ manual_map = EmptyMap
   /\ downloaded = FALSE
   /\ file_idx = 1
   /\ file_log = <<>>
   /\ idx = 1
   /\ merged = <<>>
   /\ cleaned = <<>>
   /\ written = FALSE
   /\ RowIdle
   /\ PdfIdle
   /\ XlsxIdle
   /\ ElkIdle
   /\ ClassIdle
   /\ headers = <<>>
   /\ inferred = EmptyMap

\* merge_rows on every list of records of the pool.
SpecKey == InitKey /\ [][NextMerge]_vars

\* ---------------------------------------------------------------------
\* Properties of the key of a stored record
\* ---------------------------------------------------------------------

\* C28: after every step of merge_rows, the key recomputed from the fields
\* a stored record has now is the key it is stored under, and no two stored
\* records have the same key.
C28_StoredKeyStable ==
   /\ \A k \in 1..Len(merged) : ClaimKey(merged[k].rec) = merged[k].key
   /\ \A k, j \in 1..Len(merged) :
         ClaimKey(merged[k].rec) = ClaimKey(merged[j].rec) => k = j

\* Two records are stored, and one of them has taken the zone of a later
\* row of its key in place of the zone it was stored with.
C28_Witness ==
   /\ idx > Len(normalized)
   /\ Len(merged) = 2
   /\ \E k \in 1..Len(merged) :
         \E i \in merged[k].src :
            /\ \A j \in merged[k].src : i <= j
            /\ merged[k].rec["zone"] # normalized[i]["zone"]

\* ---------------------------------------------------------------------
\* The draw-odds spreadsheet
\* ---------------------------------------------------------------------

h_hunt == <<"h", "u", "n", "t">>
h_unit_description == <<"u", "n", "i", "t", "/", "d", "e", "s", "c", "r", "i", "p", "t", "i", "o", "n">>
h_permits == <<"p", "e", "r", "m", "i", "t", "s">>
h_t == <<"t">>
s_Hunt == <<"H", "u", "n", "t">>
s_Unit_Description == <<"U", "n", "i", "t", "/", "D", "e", "s", "c", "r", "i", "p", "t", "i", "o", "n">>
s_Permits == <<"P", "e", "r", "m", "i", "t", "s">>
s_T == <<"T">>
s_ELK == <<"E", "L", "K">>
s_DEER_padded == <<" ", "D", "E", "E", "R", " ">>
s_EL == <<"E", "L">>
s_MULE_DEER == <<"M", "U", "L", "E", " ", "D", "E", "E", "R">>
s_BULL == <<"B", "U", "L", "L">>
s_ELK_1_100 == <<"E", "L", "K", "-", "1", "-", "1", "0", "0">>
s_Unit_12 == <<"U", "n", "i", "t", " ", "1", "2">>
s_10 == <<"1", "0">>
s_DRAW == <<"D", "R", "A", "W">>

\* str.upper() on one character.
UpperChar(c) ==
   IF \E i \in 1..Len(LowerChars) : LowerChars[i] = c
   THEN UpperChars[CHOOSE i \in 1..Len(LowerChars) : LowerChars[i] = c]
   ELSE c

\* str.upper()
UpperStr(s) == [i \in 1..Len(s) |-> UpperChar(s[i])]

\* A letter.
IsLetter(c) == \E i \in 1..Len(LowerChars) : c = LowerChars[i] \/ c = UpperChars[i]

\* str.isalpha()
IsAlpha(s) == s # <<>> /\ \A i \in 1..Len(s) : IsLetter(s[i])

\* str.title(): a letter after a non-letter in upper case, the others lower.
Title(s) ==
   [i \in 1..Len(s) |->
      IF i = 1 \/ ~IsLetter(s[i - 1]) THEN UpperChar(s[i]) ELSE LowerChar(s[i])]

\* list.index(x) counted from 1, 0 when x is not in the list.
IndexOf(seq, x) ==
   IF \E i \in 1..Len(seq) : seq[i] = x
   THEN CHOOSE i \in 1..Len(seq) : seq[i] = x /\ \A k \in 1..(i - 1) : seq[k] # x
   ELSE 0

\* [normalize_header(c) for c in row]
NormRow(row) == [i \in 1..Len(row) |-> normalize_header(row[i])]

\* normalize_draw_odds_xlsx: the test for the header row
IsHeaderRow(norm) ==
   /\ IndexOf(norm, h_hunt) # 0
   /\ IndexOf(norm, h_unit_description) # 0
   /\ IndexOf(norm, h_permits) # 0

\* normalize_draw_odds_xlsx: header_idx counted from 1, 0 when no row is
\* the header row
HeaderIndex(rows) ==
   IF \E i \in 1..Len(rows) : IsHeaderRow(NormRow(rows[i]))
   THEN CHOOSE i \in 1..Len(rows) :
           /\ IsHeaderRow(NormRow(rows[i]))
           /\ \A k \in 1..(i - 1) : ~IsHeaderRow(NormRow(rows[k]))
   ELSE 0

\* normalize_draw_odds_xlsx: total_apps_col, the first column right of
\* permits whose header is "t", 0 when there is none
TotalAppsCol(header, permits_col) ==
   IF \E i \in (permits_col + 1)..Len(header) : header[i] = h_t
   THEN CHOOSE i \in (permits_col + 1)..Len(header) :
           /\ header[i] = h_t
           /\ \A k \in (permits_col + 1)..(i - 1) : header[k] # h_t
   ELSE 0

\* normalize_draw_odds_xlsx: the columns read from the header row
ColumnsOf(header_idx, header) ==
   IF TotalAppsCol(header, IndexOf(header, h_permits)) = 0 THEN [found |-> FALSE]
   ELSE [found |-> TRUE, header_idx |-> header_idx,
         hunt_col |-> IndexOf(header, h_hunt),
         unit_col |-> IndexOf(header, h_unit_description),
         permits_col |-> IndexOf(header, h_permits),
         total_apps_col |-> TotalAppsCol(header, IndexOf(header, h_permits))]

\* normalize_draw_odds_xlsx, up to the row loop
XlsxColumns(rows) ==
   IF HeaderIndex(rows) = 0 THEN [found |-> FALSE]
   ELSE ColumnsOf(HeaderIndex(rows), NormRow(rows[HeaderIndex(rows)]))

\* row[col] if col < len(row) else ""
CellText(row, col) == IF col <= Len(row) THEN row[col] ELSE <<>>

\* coerce_number(row[col] if col < len(row) else None)
CellNumber(row, col) ==
   IF col <= Len(row) THEN coerce_number(PyStr(row[col])) ELSE PyNone

\* not any((c or "").strip() for c in row)
IsBlankRow(row) == \A i \in 1..Len(row) : Strip(row[i]) = <<>>

\* Variant of IsSpeciesMarker: a first cell of any length sets the species.
IsSpeciesMarker_AnyLength(first) ==
   IsAlpha(first) /\ UpperStr(first) = first

\* first.isalpha() and len(first) > 2 and first.upper() == first
IsSpeciesMarker(first) ==
   IsAlpha(first) /\ Len(first) > 2 /\ UpperStr(first) = first

\* A letter or a digit.
IsAlnum(c) == IsLetter(c) \/ IsDigit(c)

RECURSIVE SkipAlnum(_, _)
\* The end of the run of letters and digits that starts at i.
SkipAlnum(s, i) == IF i <= Len(s) /\ IsAlnum(s[i]) THEN SkipAlnum(s, i + 1) ELSE i

\* re.search(r"\bUnit\s+([0-9A-Za-z]+)", ..., re.IGNORECASE) tried at i
XlsxUnitAt(s, i) ==
   IF i + 3 > Len(s) THEN NoMatch
   ELSE IF LowerStr(SubSeq(s, i, i + 3)) # <<"u", "n", "i", "t">> THEN NoMatch
   ELSE IF i > 1 /\ IsWordChar(s[i - 1]) THEN NoMatch
   ELSE IF SkipSpaces(s, i + 4) = i + 4 THEN NoMatch
   ELSE IF SkipAlnum(s, SkipSpaces(s, i + 4)) = SkipSpaces(s, i + 4) THEN NoMatch
   ELSE Matched(SubSeq(s, SkipSpaces(s, i + 4), SkipAlnum(s, SkipSpaces(s, i + 4)) - 1))

\* re.search(r"\bUnit\s+([0-9A-Za-z]+)", unit_text, re.IGNORECASE)
XlsxUnitMatch(s) ==
   IF \E i \in 1..Len(s) : XlsxUnitAt(s, i).found
   THEN XlsxUnitAt(s, CHOOSE i \in 1..Len(s) :
                         /\ XlsxUnitAt(s, i).found
                         /\ \A k \in 1..(i - 1) : ~XlsxUnitAt(s, k).found)
   ELSE NoMatch

\* zone_match.group(1) if zone_match else (unit_text or hunt_code)
XlsxZone(unit_text, hunt_code) ==
   IF XlsxUnitMatch(unit_text).found THEN XlsxUnitMatch(unit_text).group
   ELSE IF unit_text # <<>> THEN unit_text
   ELSE hunt_code

\* What one turn of the row loop did: the log entry, current_species and
\* year after it, and the record appended, if any.
XlsxTurn(log, species, year, out) ==
   [log |-> log, species |-> species, year |-> year, out |-> out]

\* normalize_draw_odds_xlsx, a row that is neither blank nor a species row
XlsxData(hunt_code, unit_text, permits, applicants, species, year, name_year) ==
   IF hunt_code = <<>> \/ permits = PyNone \/ applicants = PyNone
   THEN XlsxTurn("skipped", species, year, <<>>)
   ELSE IF Coalesce(year, name_year) = PyNone
   THEN XlsxTurn("noyear", species, PyNone, <<>>)
   ELSE IF applicants = PyNaN \/ permits = PyNaN
   THEN XlsxTurn("raise", species, Coalesce(year, name_year), <<>>)
   ELSE XlsxTurn("record", species, Coalesce(year, name_year),
                 <<[year |-> Coalesce(year, name_year),
                    zone |-> PyStr(XlsxZone(unit_text, hunt_code)),
                    huntCode |-> PyStr(hunt_code),
                    species |-> PyStr(species),
                    weapon |-> PyStr(s_Any),
                    drawApplicants |-> RoundToInt(applicants),
                    drawTags |-> RoundToInt(permits),
                    hunterSuccessRate |-> PyFloat(0)]>>)

\* normalize_draw_odds_xlsx, the body of the row loop
XlsxStep(row, cols, species, year, name_year) ==
   IF IsBlankRow(row) THEN XlsxTurn("blank", species, year, <<>>)
   ELSE IF IsSpeciesMarker(Strip(CellText(row, 1)))
   THEN XlsxTurn("species", Title(Strip(CellText(row, 1))), year, <<>>)
   ELSE XlsxData(Strip(CellText(row, cols.hunt_col)),
                 Strip(CellText(row, cols.unit_col)),
                 CellNumber(row, cols.permits_col),
                 CellNumber(row, cols.total_apps_col),
                 species, year, name_year)

\* normalize_draw_odds_xlsx: the header row and the columns are looked for;
\* without them the file yields nothing.
XlsxHeader ==
   /\ pc = "xlsx"
   /\ xlsx_cols' = XlsxColumns(xlsx_rows)
   /\ IF xlsx_cols'.found
      THEN /\ xlsx_idx' = xlsx_cols'.header_idx + 1
           /\ current_species' = s_Unknown
           /\ pc' = "xlsxrows"
      ELSE /\ pc' = "xlsxdone"
           /\ UNCHANGED <<xlsx_idx, current_species>>
   /\ UNCHANGED <<error, inputVars, runVars, mergeVars, mapVars, rowVars, pdfVars>>
   /\ UNCHANGED <<xlsx_rows, xlsx_name_year, xlsx_year, xlsx_data, xlsx_log>>
   /\ UNCHANGED <<elkVars, classVars>>

\* normalize_draw_odds_xlsx: one turn of "for row in rows[header_idx + 1 :]".
\* int(round(nan)) raises ValueError, which nothing catches.
XlsxRow ==
   /\ pc = "xlsxrows"
   /\ xlsx_idx <= Len(xlsx_rows)
   /\ \E r \in {XlsxStep(xlsx_rows[xlsx_idx], xlsx_cols, current_species,
                         xlsx_year, xlsx_name_year)} :
         /\ xlsx_log' = Append(xlsx_log, r.log)
         /\ current_species' = r.species
         /\ xlsx_year' = r.year
         /\ xlsx_data' = xlsx_data \o r.out
         /\ IF r.log = "raise"
            THEN pc' = "failed" /\ error' = "ValueError"
            ELSE UNCHANGED <<pc, error>>
   /\ xlsx_idx' = xlsx_idx + 1
   /\ UNCHANGED <<inputVars, runVars, mergeVars, mapVars, rowVars, pdfVars>>
   /\ UNCHANGED <<xlsx_rows, xlsx_name_year, xlsx_cols>>
   /\ UNCHANGED <<elkVars, classVars>>

\* normalize_draw_odds_xlsx: return data
XlsxReturn ==
   /\ pc = "xlsxrows"
   /\ xlsx_idx > Len(xlsx_rows)
   /\ pc' = "xlsxdone"
   /\ UNCHANGED <<error, inputVars, runVars, mergeVars, callVars>>

\* ---------------------------------------------------------------------
\* Inputs of the draw-odds spreadsheet
\* ---------------------------------------------------------------------

\* The header row of a draw-odds sheet.
SheetHeader == <<s_Hunt, s_Unit_Description, s_Permits, s_T>>

\* The rows under the header: species rows ("ELK", " DEER ", and "BULL" in
\* a row that has the cells of a hunt), rows whose first cell is no species
\* ("EL", "Elk" and a hunt code in rows with the cells of a hunt, "MULE DEER"
\* alone), and a blank row.
SheetRows ==
   {<<s_ELK>>, <<s_DEER_padded, <<>>, <<>>, <<>>>>,
    <<s_BULL, s_Unit_12, s_5, s_50>>,
    <<s_EL, s_Unit_6, s_7, s_25>>, <<s_MULE_DEER>>, <<s_Elk, s_Unit_12, s_5, s_50>>,
    <<s_ELK_1_100, s_Unit_6, s_10, s_100>>,
    <<<<>>, s_blank>>}

MaxSheetRows == 3

\* The sheets: the header row and up to MaxSheetRows rows under it, and the
\* header row under a title row "DRAW" with one row under it.
Sheets ==
   {<<SheetHeader>> \o body : body \in UNION {[1..n -> SheetRows] : n \in 0..MaxSheetRows}}
      \cup {<<<<s_DRAW>>, SheetHeader, r>> : r \in SheetRows}

\* --year and the year in the file name.
SheetYears ==
   {[fallback |-> PyInt(2023), name |-> PyNone],
    [fallback |-> PyNone, name |-> PyInt(2024)],
    [fallback |-> PyNone, name |-> PyNone]}

InitXlsx ==
   /\ pc = "xlsx"
   /\ xlsx_rows \in Sheets \cup {<<>>, <<<<s_Hunt, s_Permits>>>>}
   /\ \E y \in SheetYears : xlsx_year = y.fallback /\ xlsx_name_year = y.name
   /\ xlsx_cols = [found |-> FALSE]
   /\ xlsx_idx = 1
   /\ current_species = <<>>
   /\ xlsx_data = <<>>
   /\ xlsx_log = <<>>
   /\ RowIdle
   /\ PdfIdle
   /\ ElkIdle
   /\ ClassIdle
   /\ MainIdle

NextXlsx == XlsxHeader \/ XlsxRow \/ XlsxReturn

\* normalize_draw_odds_xlsx on every sheet of the pool.
SpecXlsx == InitXlsx /\ [][NextXlsx]_vars

\* ---------------------------------------------------------------------
\* Properties of the species context
\* ---------------------------------------------------------------------

\* The text of the first cell of a row.
ClaimFirstCell(row) == IF row = <<>> THEN <<>> ELSE Strip(row[1])

\* A species row: the first cell is upper-case letters, more than two.
ClaimSpeciesRow(row) ==
   /\ Len(ClaimFirstCell(row)) > 2
   /\ \A i \in 1..Len(ClaimFirstCell(row)) :
         \E k \in 1..Len(UpperChars) : ClaimFirstCell(row)[i] = UpperChars[k]

\* A word of letters in title case.
ClaimTitled(word) ==
   [i \in 1..Len(word) |-> IF i = 1 THEN word[i] ELSE LowerChar(word[i])]

\* The species in force at row at of the sheet: that of the last species
\* row between the header row and the row, "Unknown" when there is none.
ClaimSpeciesAt(rows, header_idx, at) ==
   IF \E k \in (header_idx + 1)..(at - 1) : ClaimSpeciesRow(rows[k])
   THEN ClaimTitled(ClaimFirstCell(rows[
           CHOOSE k \in (header_idx + 1)..(at - 1) :
              /\ ClaimSpeciesRow(rows[k])
              /\ \A j \in (k + 1)..(at - 1) : ~ClaimSpeciesRow(rows[j])]))
   ELSE s_Unknown

\* The position in data of the record of the i-th row read.
ClaimRecordOf(log, i) == Cardinality({j \in 1..i : log[j] = "record"})

\* C25: every record of the sheet has the species of the last species row
\* (first cell upper-case letters, more than two) between the header row and
\* its own row, title-cased, or "Unknown" when there is none; a species row
\* yields no record.
C25_SpeciesContext ==
   \A i \in DOMAIN xlsx_log :
      /\ xlsx_log[i] = "record" =>
            xlsx_data[ClaimRecordOf(xlsx_log, i)]["species"] =
               PyStr(ClaimSpeciesAt(xlsx_rows, xlsx_cols.header_idx,
                                    xlsx_cols.header_idx + i))
      /\ ClaimSpeciesRow(xlsx_rows[xlsx_cols.header_idx + i]) =>
            xlsx_log[i] # "record"

\* A sheet read to the end: the hunt right under two species rows gave the
\* one record of the sheet.
C25_Witness ==
   /\ pc = "xlsxdone"
   /\ Len(xlsx_data) = 1
   /\ \E i \in DOMAIN xlsx_log :
         /\ xlsx_log[i] = "record"
         /\ i > 2
         /\ xlsx_log[i - 1] = "species"
         /\ xlsx_log[i - 2] = "species"
         /\ xlsx_data[1]["species"] # PyStr(s_Unknown)

\* ---------------------------------------------------------------------
\* The elk harvest report (parse_elk_harvest_2024.py)
\* ---------------------------------------------------------------------
\* A line is the sequence of its words: extract_lines collapses every run of
\* whitespace to one space and strips the line.

s_gmu == <<"g", "m", "u">>
s_REG == <<"R", "E", "G">>
s_2A == <<"2", "A">>
s_5b == <<"5", "b">>
s_North == <<"N", "o", "r", "t", "h">>
s_Total == <<"T", "o", "t", "a", "l">>
s_Youth == <<"Y", "o", "u", "t", "h">>
s_Mob_dot == <<"M", "o", "b", ".">>
s_Imp_dot == <<"I", "m", "p", ".">>
s_rifle == <<"r", "i", "f", "l", "e">>
s_Sep == <<"S", "e", "p">>
s_1_5 == <<"1", "-", "5">>
s_A == <<"A">>
s_8 == <<"8">>
s_80pct == <<"8", "0", "%">>
s_50pct == <<"5", "0", "%">>
s_3 == <<"3">>
s_1 == <<"1">>
s_4_2 == <<"4", ".", "2">>
s_3_5 == <<"3", ".", "5">>
s_2024_2025 == <<"2", "0", "2", "4", "-", "2", "0", "2", "5">>

\* The end of GMU_RE's "\bGMU": the word ends with "GMU" in any case, after
\* a character that is not a word character.
EndsWithGmu(w) ==
   /\ Len(w) >= 3
   /\ LowerStr(SubSeq(w, Len(w) - 2, Len(w))) = s_gmu
   /\ Len(w) = 3 \/ ~IsWordChar(w[Len(w) - 3])

RECURSIVE SkipDigits(_, _)
\* The end of the run of digits that starts at i.
SkipDigits(s, i) == IF i <= Len(s) /\ IsDigit(s[i]) THEN SkipDigits(s, i + 1) ELSE i

\* GMU_RE's "([0-9]+[A-Z]?)\b" at the start of a word, in any case: the
\* digits and one letter when a word boundary follows the letter, the digits
\* alone when a word boundary follows them.
GmuToken(w, d) ==
   IF d = 1 THEN NoMatch
   ELSE IF d <= Len(w) /\ IsLetter(w[d]) /\ (d = Len(w) \/ ~IsWordChar(w[d + 1]))
   THEN Matched(SubSeq(w, 1, d))
   ELSE IF d > Len(w) \/ ~IsWordChar(w[d]) THEN Matched(SubSeq(w, 1, d - 1))
   ELSE NoMatch

\* GMU_RE matches at word i of the line.
GmuAt(words, i) ==
   IF i + 1 > Len(words) \/ ~EndsWithGmu(words[i]) THEN NoMatch
   ELSE GmuToken(words[i + 1], SkipDigits(words[i + 1], 1))

\* GMU_RE.search(line)
GmuSearch(words) ==
   IF \E i \in 1..Len(words) : GmuAt(words, i).found
   THEN GmuAt(words, CHOOSE i \in 1..Len(words) :
                        /\ GmuAt(words, i).found
                        /\ \A k \in 1..(i - 1) : ~GmuAt(words, k).found)
   ELSE NoMatch

RECURSIVE MarkersFrom(_, _)
\* parse_rows, the first loop: (idx, m.group(1).upper()) for every line
\* GMU_RE finds a marker in
MarkersFrom(lines, i) ==
   IF i > Len(lines) THEN <<>>
   ELSE IF GmuSearch(lines[i]).found
   THEN <<[idx |-> i, gmu |-> UpperStr(GmuSearch(lines[i]).group)]>>
           \o MarkersFrom(lines, i + 1)
   ELSE MarkersFrom(lines, i + 1)

\* abs(item[0] - line_index)
Distance(a, b) == IF a >= b THEN a - b ELSE b - a

\* Variant of _closest_gmu: the last marker before the line.
_closest_gmu_Preceding(line_index, markers) ==
   IF \A k \in 1..Len(markers) : markers[k].idx >= line_index THEN <<>>
   ELSE markers[CHOOSE k \in 1..Len(markers) :
                   /\ markers[k].idx < line_index
                   /\ \A j \in 1..Len(markers) :
                         markers[j].idx < line_index => markers[j].idx <= markers[k].idx].gmu

\* _closest_gmu: None (here the empty text) without markers, otherwise the
\* token of the first marker at the least distance from the line
_closest_gmu(line_index, markers) ==
   IF markers = <<>> THEN <<>>
   ELSE markers[CHOOSE k \in 1..Len(markers) :
                   /\ \A j \in 1..Len(markers) :
                         Distance(markers[k].idx, line_index)
                            <= Distance(markers[j].idx, line_index)
                   /\ \A j \in 1..(k - 1) :
                         Distance(markers[j].idx, line_index)
                            > Distance(markers[k].idx, line_index)].gmu

\* ROW_RE: ELK-\d-\d{3}
IsHuntCode(w) ==
   /\ Len(w) = 9
   /\ LowerStr(SubSeq(w, 1, 4)) = <<"e", "l", "k", "-">>
   /\ IsDigit(w[5])
   /\ w[6] = "-"
   /\ AllDigits(SubSeq(w, 7, 9))

\* ROW_RE: archery|muzzleloader|rifle
IsWeapon(w) ==
   LowerStr(w) \in {<<"a", "r", "c", "h", "e", "r", "y">>,
                    <<"m", "u", "z", "z", "l", "e", "l", "o", "a", "d", "e", "r">>,
                    s_rifle}

\* ROW_RE: \d+
IsCount(w) == w # <<>> /\ AllDigits(w)

\* ROW_RE: \d+%
IsPercent(w) == Len(w) >= 2 /\ w[Len(w)] = "%" /\ AllDigits(SubSeq(w, 1, Len(w) - 1))

\* ROW_RE: \d+(?:\.\d+)?
IsDecimal(w) ==
   IF Contains(w, ".")
   THEN /\ IsCount(SubSeq(w, 1, FirstIndex(w, ".") - 1))
        /\ IsCount(SubSeq(w, FirstIndex(w, ".") + 1, Len(w)))
   ELSE IsCount(w)

\* ROW_RE: [A-Z/]+ in any case
IsBagLimit(w) == w # <<>> /\ \A i \in 1..Len(w) : IsLetter(w[i]) \/ w[i] = "/"

\* ROW_RE: the nine words a record line ends with
IsRowTail(t) ==
   /\ IsBagLimit(t[1])
   /\ IsCount(t[2])
   /\ IsCount(t[3])
   /\ IsPercent(t[4])
   /\ IsPercent(t[5])
   /\ IsCount(t[6])
   /\ IsCount(t[7])
   /\ IsDecimal(t[8])
   /\ IsDecimal(t[9])

\* ROW_RE matches with the hunt code at word i: the weapon follows, then the
\* hunt dates (a word at least), then the nine last words.
RowAt(words, i) ==
   /\ i + 11 <= Len(words)
   /\ IsHuntCode(words[i])
   /\ IsWeapon(words[i + 1])
   /\ IsRowTail(SubSeq(words, Len(words) - 8, Len(words)))

\* ROW_RE.match(line): the word of the hunt code, 0 when the line does not
\* match; typeLabel is lazy, so the first such word
RowMatch(words) ==
   IF \E i \in 1..Len(words) : RowAt(words, i)
   THEN CHOOSE i \in 1..Len(words) :
           RowAt(words, i) /\ \A k \in 1..(i - 1) : ~RowAt(words, k)
   ELSE 0

\* row["typeLabel"].strip().replace(".", "") or "REG"
TypeLabel(words, i) ==
   IF RemoveChar(JoinSpaced(SubSeq(words, 1, i - 1)), ".") = <<>> THEN s_REG
   ELSE RemoveChar(JoinSpaced(SubSeq(words, 1, i - 1)), ".")

\* int(text)
IntOf(w) == PyInt(DigitsVal(w))

\* parse_rows: the dict appended for a line, given the word of its hunt
\* code, its type label and the closest marker (gmu None without markers)
ElkRecord(words, i, type_label, m_gmu) ==
   [year |-> PyInt(2024),
    season |-> PyStr(s_2024_2025),
    species |-> PyStr(s_Elk),
    zone |-> PyStr(IF m_gmu # <<>> THEN m_gmu ELSE type_label),
    gmu |-> IF m_gmu # <<>> THEN PyStr(m_gmu) ELSE PyNone,
    type |-> PyStr(type_label),
    huntCode |-> PyStr(words[i]),
    weapon |-> PyStr(Title(words[i + 1])),
    huntDates |-> PyStr(JoinSpaced(SubSeq(words, i + 2, Len(words) - 9))),
    bagLimit |-> PyStr(words[Len(words) - 8]),
    licensesSold |-> IntOf(words[Len(words) - 7]),
    huntersReporting |-> IntOf(words[Len(words) - 6]),
    percentReporting |-> IntOf(SubSeq(words[Len(words) - 5], 1, Len(words[Len(words) - 5]) - 1)),
    hunterSuccessRate |-> ParseFloat(SubSeq(words[Len(words) - 4], 1, Len(words[Len(words) - 4]) - 1)),
    estimatedBulls |-> IntOf(words[Len(words) - 3]),
    estimatedCows |-> IntOf(words[Len(words) - 2]),
    estimatedHarvestTotal |->
       PyInt(DigitsVal(words[Len(words) - 3]) + DigitsVal(words[Len(words) - 2])),
    satisfactionRating |-> ParseFloat(words[Len(words) - 1]),
    daysHunted |-> ParseFloat(words[Len(words)])]

\* parse_rows: the first loop, which collects the GMU markers of all lines.
ElkScan ==
   /\ pc = "elk"
   /\ gmu_markers' = MarkersFrom(elk_lines, 1)
   /\ pc' = "elkrows"
   /\ UNCHANGED <<error, inputVars, runVars, mergeVars, mapVars, rowVars, pdfVars>>
   /\ UNCHANGED <<elk_lines, elk_idx, elk_out, xlsxVars, classVars>>

\* parse_rows: one turn of the second loop. An entry of elk_out is the
\* record and (history) the position of its line.
ElkLine ==
   /\ pc = "elkrows"
   /\ elk_idx <= Len(elk_lines)
   /\ \E i \in {RowMatch(elk_lines[elk_idx])} :
         IF i = 0 THEN elk_out' = elk_out
         ELSE elk_out' =
                 Append(elk_out,
                        [line |-> elk_idx,
                         rec |-> ElkRecord(elk_lines[elk_idx], i,
                                           TypeLabel(elk_lines[elk_idx], i),
                                           _closest_gmu(elk_idx, gmu_markers))])
   /\ elk_idx' = elk_idx + 1
   /\ UNCHANGED <<pc, error, inputVars, runVars, mergeVars, mapVars, rowVars, pdfVars>>
   /\ UNCHANGED <<elk_lines, gmu_markers, xlsxVars, classVars>>

\* parse_rows: return out
ElkReturn ==
   /\ pc = "elkrows"
   /\ elk_idx > Len(elk_lines)
   /\ pc' = "elkdone"
   /\ UNCHANGED <<error, inputVars, runVars, mergeVars, callVars>>

\* ---------------------------------------------------------------------
\* Inputs of the elk harvest report
\* ---------------------------------------------------------------------

\* What a record line ends with: hunt code, weapon, dates, bag limit, and
\* the eight figures.
RowWords ==
   <<s_ELK_1_100, s_rifle, s_Sep, s_1_5, s_A, s_10, s_8, s_80pct, s_50pct,
     s_3, s_1, s_4_2, s_3_5>>

\* The lines of a report: two marker lines ("GMU 2A", "gmu 5b North"), a
\* line that is neither ("Total 10"), and record lines without a label, with
\* the label "Youth", and with the label "Mob. Imp.".
ElkLinePool ==
   {<<s_GMU, s_2A>>, <<s_gmu, s_5b, s_North>>, <<s_Total, s_10>>,
    RowWords, <<s_Youth>> \o RowWords, <<s_Mob_dot, s_Imp_dot>> \o RowWords}

MaxElkLines == 3

InitElk ==
   /\ pc = "elk"
   /\ elk_lines \in UNION {[1..n -> ElkLinePool] : n \in 0..MaxElkLines}
   /\ gmu_markers = <<>>
   /\ elk_idx = 1
   /\ elk_out = <<>>
   /\ RowIdle
   /\ PdfIdle
   /\ XlsxIdle
   /\ ClassIdle
   /\ MainIdle

NextElk == ElkScan \/ ElkLine \/ ElkReturn

\* parse_rows on every report of the pool.
SpecElk == InitElk /\ [][NextElk]_vars

\* ---------------------------------------------------------------------
\* Properties of the zone of a harvest record
\* ---------------------------------------------------------------------

\* The line is a marker line "GMU <token>".
ClaimMarkerLine(words) ==
   /\ Len(words) >= 2
   /\ LowerStr(words[1]) = s_gmu
   /\ words[2] # <<>>
   /\ IsDigit(words[2][1])

\* The marker lines before line i.
ClaimMarkersBefore(lines, i) == {k \in 1..(i - 1) : ClaimMarkerLine(lines[k])}

\* The greatest element of a set of positions.
ClaimLast(S) == CHOOSE k \in S : \A j \in S : j <= k

\* The label a record line starts with, "REG" when it starts with the hunt
\* code.
ClaimLabel(words) ==
   IF IsHuntCode(words[1]) THEN s_REG
   ELSE RemoveChar(JoinSpaced(SubSeq(words, 1, Len(words) - Len(RowWords))), ".")

\* The zone of the record of line i as stated: the token of the nearest
\* marker line before it, the label of the line when there is none.
ClaimZone(lines, i) ==
   IF ClaimMarkersBefore(lines, i) # {}
   THEN UpperStr(lines[ClaimLast(ClaimMarkersBefore(lines, i))][2])
   ELSE ClaimLabel(lines[i])

\* C26: the zone of every record of the report is the token of the nearest
\* line before its own that matches "GMU <token>", never that of a later
\* line, and without such a line it is the leading label of its own line,
\* "REG" when the label is empty.
C26_ZoneFromPrecedingMarker ==
   \A n \in DOMAIN elk_out :
      elk_out[n].rec["zone"] =
         PyStr(ClaimZone(elk_lines, elk_out[n].line))

\* ---------------------------------------------------------------------
\* The kinds of the raw files (detect_file_kind and the loops of main)
\* ---------------------------------------------------------------------
\* A file is its suffix (Path.suffix) and its bytes.

x_csv == <<".", "c", "s", "v">>
x_json == <<".", "j", "s", "o", "n">>
x_xlsx == <<".", "x", "l", "s", "x">>
x_xls == <<".", "x", "l", "s">>
x_pdf == <<".", "p", "d", "f">>
x_CSV == <<".", "C", "S", "V">>
x_dat == <<".", "d", "a", "t">>
x_txt == <<".", "t", "x", "t">>
kind_csv == <<"c", "s", "v">>
kind_json == <<"j", "s", "o", "n">>
kind_xlsx == <<"x", "l", "s", "x">>
kind_pdf == <<"p", "d", "f">>
kind_unknown == <<"u", "n", "k", "n", "o", "w", "n">>
b_zip == <<"P", "K", "3", "4">>
b_ole == <<"O", "L", "E", "2", " ", "d", "o", "c">>
b_pdf == <<"%", "P", "D", "F", "-", "1", ".", "7">>
b_object == <<" ", "{", "\"", "r", "o", "w", "s", "\"">>
b_array == <<"[", "1", ",", " ", "2", "]">>
b_table == <<"z", "o", "n", "e", ",", "t", "a", "g">>
b_late_object == <<" ", " ", " ", " ", " ", " ", " ", " ", "{">>
b_PK == <<"P", "K">>
b_pct_PDF == <<"%", "P", "D", "F">>

\* bytes.startswith(prefix)
StartsWith(bytes, prefix) ==
   Len(bytes) >= Len(prefix) /\ SubSeq(bytes, 1, Len(prefix)) = prefix

\* path.read_bytes()[:8]
Head8(bytes) == SubSeq(bytes, 1, IF Len(bytes) < 8 THEN Len(bytes) ELSE 8)

RECURSIVE StripDots(_)
\* ext.lstrip(".")
StripDots(s) == IF s # <<>> /\ Head(s) = "." THEN StripDots(Tail(s)) ELSE s

\* detect_file_kind: the extensions returned without a look at the bytes
known_exts == {x_csv, x_json, x_xlsx, x_xls, x_pdf}

\* Variant of SniffKind: bytes of no known signature are taken for CSV.
SniffKind_ElseCsv(head) ==
   IF StartsWith(head, b_PK) THEN kind_xlsx
   ELSE IF StartsWith(head, b_pct_PDF) THEN kind_pdf
   ELSE IF StartsWith(LStrip(head), <<"{">>) \/ StartsWith(LStrip(head), <<"[">>)
   THEN kind_json
   ELSE kind_csv

\* detect_file_kind, the kind read from the first eight bytes
SniffKind(head) ==
   IF StartsWith(head, b_PK) THEN kind_xlsx
   ELSE IF StartsWith(head, b_pct_PDF) THEN kind_pdf
   ELSE IF StartsWith(LStrip(head), <<"{">>) \/ StartsWith(LStrip(head), <<"[">>)
   THEN kind_json
   ELSE kind_unknown

\* detect_file_kind
detect_file_kind(file) ==
   IF LowerStr(file.suffix) \in known_exts THEN StripDots(LowerStr(file.suffix))
   ELSE SniffKind(Head8(file.bytes))

\* classified.get(kind, [])
FilesOf(table, kind) == IF kind \in DOMAIN table THEN table[kind] ELSE <<>>

\* classified.setdefault(kind, []).append(p)
AddFile(table, kind, p) ==
   [k \in (DOMAIN table) \cup {kind} |->
      IF k = kind THEN Append(FilesOf(table, kind), p) ELSE table[k]]

\* main: classified before the loop
NoFiles ==
   [k \in {kind_csv, kind_json, kind_xlsx, kind_pdf, kind_unknown} |-> <<>>]

\* main: the calls of one normalize loop
CallsOf(parser, files) == [i \in 1..Len(files) |-> [parser |-> parser, file |-> files[i]]]

\* main: the calls of the four normalize loops, in order
NormalizeCalls(table) ==
   CallsOf("normalize_csv", FilesOf(table, kind_csv))
      \o CallsOf("normalize_json", FilesOf(table, kind_json))
      \o CallsOf("normalize_draw_odds_xlsx", FilesOf(table, kind_xlsx))
      \o CallsOf("normalize_pdf", FilesOf(table, kind_pdf))

\* main: one turn of "for p in all_files". A file is named by its position
\* in all_files, which is sorted.
Classify ==
   /\ pc = "classify"
   /\ class_idx <= Len(all_files)
   /\ classified' = AddFile(classified, detect_file_kind(all_files[class_idx]), class_idx)
   /\ class_idx' = class_idx + 1
   /\ UNCHANGED <<pc, error, inputVars, runVars, mergeVars, mapVars, rowVars, pdfVars>>
   /\ UNCHANGED <<all_files, handed, warned, xlsxVars, elkVars>>

\* main: the five lists are read from classified and the unsupported files
\* are named in the warning.
Report ==
   /\ pc = "classify"
   /\ class_idx > Len(all_files)
   /\ warned' = FilesOf(classified, kind_unknown)
   /\ pc' = "hand"
   /\ UNCHANGED <<error, inputVars, runVars, mergeVars, mapVars, rowVars, pdfVars>>
   /\ UNCHANGED <<all_files, class_idx, classified, handed, xlsxVars, elkVars>>

\* main: one call of a normalizer in the four loops.
Hand ==
   /\ pc = "hand"
   /\ Len(handed) < Len(NormalizeCalls(classified))
   /\ handed' = Append(handed, NormalizeCalls(classified)[Len(handed) + 1])
   /\ UNCHANGED <<pc, error, inputVars, runVars, mergeVars, mapVars, rowVars, pdfVars>>
   /\ UNCHANGED <<all_files, class_idx, classified, warned, xlsxVars, elkVars>>

\* main: the four loops are over.
HandDone ==
   /\ pc = "hand"
   /\ Len(handed) = Len(NormalizeCalls(classified))
   /\ pc' = "handed"
   /\ UNCHANGED <<error, inputVars, runVars, mergeVars, callVars>>

\* ---------------------------------------------------------------------
\* Inputs of the kinds of the raw files
\* ---------------------------------------------------------------------

RawFile(suffix, bytes) == [suffix |-> suffix, bytes |-> bytes]

\* The files of a raw directory: one of each recognised extension (".CSV"
\* in upper case), and files of other or no extension that start like a zip
\* package, a PDF, a JSON object after a blank, a JSON array, a table, an
\* object after eight blanks, or are empty.
RawFilePool ==
   {RawFile(x_csv, b_table), RawFile(x_CSV, b_table), RawFile(x_json, b_object),
    RawFile(x_xlsx, b_zip), RawFile(x_xls, b_ole), RawFile(x_pdf, b_pdf),
    RawFile(x_dat, b_zip), RawFile(x_dat, b_pdf), RawFile(<<>>, b_object),
    RawFile(x_txt, b_array), RawFile(x_dat, b_table), RawFile(x_dat, b_late_object),
    RawFile(x_dat, <<>>)}

MaxRawFiles == 2

InitClassify ==
   /\ pc = "classify"
   /\ all_files \in UNION {[1..n -> RawFilePool] : n \in 0..MaxRawFiles}
   /\ class_idx = 1
   /\ classified = NoFiles
   /\ handed = <<>>
   /\ warned = <<>>
   /\ RowIdle
   /\ PdfIdle
   /\ XlsxIdle
   /\ ElkIdle
   /\ MainIdle

NextClassify == Classify \/ Report \/ Hand \/ HandDone

\* The classification and the normalize loops of main on every raw
\* directory of the pool.
SpecClassify == InitClassify /\ [][NextClassify]_vars

\* ---------------------------------------------------------------------
\* Properties of the kinds of the raw files
\* ---------------------------------------------------------------------

\* The file has none of the extensions .csv, .json, .xlsx, .xls, .pdf.
ClaimNoKnownExtension(file) ==
   LowerStr(file.suffix) \notin {x_csv, x_json, x_xlsx, x_xls, x_pdf}

\* The first i bytes are the given ones.
ClaimBegins(bytes, prefix) ==
   /\ Len(bytes) >= Len(prefix)
   /\ \A i \in 1..Len(prefix) : bytes[i] = prefix[i]

\* The content starts with "{" or "[", blanks before it within the first
\* eight bytes aside.
ClaimJsonStart(bytes) ==
   \E i \in 1..8 :
      /\ i <= Len(bytes)
      /\ bytes[i] \in {"{", "["}
      /\ \A k \in 1..(i - 1) : IsSpace(bytes[k])

\* The tag of a file by its bytes, other the tag of every other case.
ClaimTag(file, other) ==
   IF ClaimBegins(file.bytes, <<"P", "K">>) THEN "xlsx"
   ELSE IF ClaimBegins(file.bytes, <<"%", "P", "D", "F">>) THEN "pdf"
   ELSE IF ClaimJsonStart(file.bytes) THEN "json"
   ELSE other

\* The list of classified file p is in.
ClaimListOf(p) ==
   IF \E i \in DOMAIN FilesOf(classified, kind_csv) : classified[kind_csv][i] = p THEN "csv"
   ELSE IF \E i \in DOMAIN FilesOf(classified, kind_json) : classified[kind_json][i] = p THEN "json"
   ELSE IF \E i \in DOMAIN FilesOf(classified, kind_xlsx) : classified[kind_xlsx][i] = p THEN "xlsx"
   ELSE IF \E i \in DOMAIN FilesOf(classified, kind_pdf) : classified[kind_pdf][i] = p THEN "pdf"
   ELSE IF \E i \in DOMAIN FilesOf(classified, kind_unknown) : classified[kind_unknown][i] = p THEN "unknown"
   ELSE "none"

\* The parsers file p was handed to.
ClaimParsersOf(p) == {handed[i].parser : i \in {j \in DOMAIN handed : handed[j].file = p}}

\* The parser of a tag.
ClaimParser(tag) ==
   IF tag = "csv" THEN {"normalize_csv"}
   ELSE IF tag = "json" THEN {"normalize_json"}
   ELSE IF tag = "xlsx" THEN {"normalize_draw_odds_xlsx"}
   ELSE IF tag = "pdf" THEN {"normalize_pdf"}
   ELSE {}

\* Every classified file without a recognised extension has the tag of its
\* bytes, and once the loops are over it was handed to the parser of that
\* tag and to no other.
ClaimTaggedByBytes(other) ==
   \A p \in 1..(class_idx - 1) :
      ClaimNoKnownExtension(all_files[p]) =>
         /\ ClaimListOf(p) = ClaimTag(all_files[p], other)
         /\ pc = "handed" => ClaimParsersOf(p) = ClaimParser(ClaimTag(all_files[p], other))

\* C27 (as stated): a file without a recognised extension is tagged
\* spreadsheet when its bytes start with "PK", PDF when they start with
\* "%PDF", JSON when its content starts with "{" or "[", and delimited text
\* in every other case, and is then parsed as delimited text.
C27_ElseDelimitedText == ClaimTaggedByBytes("csv")

\* C27 (narrowed): a file without a recognised extension is tagged
\* spreadsheet when its bytes start with "PK", PDF when they start with
\* "%PDF", JSON when its content starts with "{" or "[" (after blanks,
\* within the first eight bytes), and unknown in every other case; an
\* unknown file is named in the unsupported-files warning and handed to no
\* parser.
C27_ElseUnsupported ==
   /\ ClaimTaggedByBytes("unknown")
   /\ pc \in {"hand", "handed"} =>
         \A p \in 1..Len(all_files) :
            (ClaimNoKnownExtension(all_files[p])
               /\ ClaimTag(all_files[p], "unknown") = "unknown")
               <=> (\E i \in DOMAIN warned : warned[i] = p)

\* The loops are over for a directory of a table without a known extension
\* and a zip package without one: the first is in the warning, the second
\* went to the spreadsheet parser.
C27_Witness ==
   /\ pc = "handed"
   /\ all_files = <<RawFile(x_dat, b_table), RawFile(x_dat, b_zip)>>
   /\ warned = <<1>>
   /\ handed = <<[parser |-> "normalize_draw_odds_xlsx", file |-> 2]>>

\* C29: once the loops of main are over, every file of the raw directory
\* was handed to exactly one of the four parsers or is named in the
\* unsupported-files warning, whatever its extension, ".xls" included.
C29_NoFileIgnored ==
   pc = "handed" =>
      \A p \in 1..Len(all_files) :
         \/ Cardinality({i \in DOMAIN handed : handed[i].file = p}) = 1
               /\ ~\E i \in DOMAIN warned : warned[i] = p
         \/ ClaimParsersOf(p) = {} /\ \E i \in DOMAIN warned : warned[i] = p

====
